---- MODULE Spec2Model ----
(***************************************************************************)
(* A model of python-poloniex (src/poloniex/__init__.py): the HTTP         *)
(* dispatcher PoloniexBase.__call__ with its retry decorator, nonce        *)
(* property and response classification, and the websocket subscription    *)
(* engine PoloniexSocketed.                                                *)
(*                                                                         *)
(* Python strings are TLA+ strings (Len, SubSeq and \o act on them), a     *)
(* dict is the sequence of its <<key, value>> pairs in insertion order,    *)
(* and a falsy credential (False, None, '') is the empty string.           *)
(***************************************************************************)
EXTENDS Integers, Sequences, FiniteSets, TLC

\* ------------------------------------------------------------------ bounds

\* Calls the single caller of Spec makes one after the other.
MaxCalls == 1
\* Concurrent callers of SpecConc, one call each.
NThreads == 2
\* Failing responses the exchange gives in one run of SpecConc.
MaxFailConc == 1
\* Nonces another consumer of the same API key may burn at the exchange.
MaxExternal == 1
\* Calls the user of SpecWs makes on the subscription engine.
MaxUserOps == 2
\* Calls the user of SpecQuiet makes on the subscription engine.
MaxQuietOps == 3
\* Retryable answers the constructor's ticker query gets before its data.
MaxCtorRetries == 1
\* Frames the exchange pushes in one run of SpecWs.
MaxInbound == 2
\* Times startws may be called in one run of SpecWs.
MaxStarts == 1

\* Calls on the engine the calling thread makes next to its HTTP calls.
MaxEngineOps == 1
\* Calls the single caller of SpecSeq makes one after the other.
MaxSeqCalls == 2
\* Calls the user of SpecRace makes on the engine, startws included.
MaxRaceOps == 3
\* Threads startws may create in one run of SpecStarts.
MaxTasks == 2
\* Calls of startws and stopws the user of SpecStarts makes.
MaxStartStops == 2

\* ------------------------------------------------------- program constants

\* A fault C5 must detect: a schedule without its last delay.
ShortDelays == <<0, 2, 5>>

retryDelays == <<0, 2, 5, 30>>

PUBLIC_COMMANDS ==
    { "returnTicker", "return24hVolume", "returnOrderBook", "marketTradeHist",
      "returnChartData", "returnCurrencies", "returnLoanOrders" }

PRIVATE_COMMANDS ==
    { "returnBalances", "returnCompleteBalances", "returnDepositAddresses",
      "generateNewAddress", "returnDepositsWithdrawals", "returnOpenOrders",
      "returnTradeHistory", "returnAvailableAccountBalances",
      "returnTradableBalances", "returnOpenLoanOffers", "returnOrderTrades",
      "returnOrderStatus", "returnActiveLoans", "returnLendingHistory",
      "createLoanOffer", "cancelLoanOffer", "toggleAutoRenew", "buy", "sell",
      "cancelOrder", "cancelAllOrders", "moveOrder", "withdraw",
      "returnFeeInfo", "transferBalance", "returnMarginAccountSummary",
      "marginBuy", "marginSell", "getMarginPosition", "closeMarginPosition" }

\* The stride of the nonce property (self._nonce += 42).
NonceStride == 42

\* ------------------------------------------------------------ str methods

\* s[i] of a Python string (1-based here).
CharAt(s, i) == SubSeq(s, i, i)

\* pat in s
IsSubstring(pat, s) ==
    \E i \in 1..(Len(s) - Len(pat) + 1) : SubSeq(s, i, i + Len(pat) - 1) = pat

UpperCase == "ABCDEFGHIJKLMNOPQRSTUVWXYZ"
LowerCase == "abcdefghijklmnopqrstuvwxyz"

\* s.lower()
RECURSIVE Lower(_)
Lower(s) ==
    IF s = "" THEN ""
    ELSE LET c == Head(s)
         IN  (IF \E i \in 1..26 : CharAt(UpperCase, i) = c
              THEN CharAt(LowerCase,
                          CHOOSE i \in 1..26 : CharAt(UpperCase, i) = c)
              ELSE c) \o Lower(Tail(s))

\* s.upper()
RECURSIVE Upper(_)
Upper(s) ==
    IF s = "" THEN ""
    ELSE LET c == Head(s)
         IN  (IF \E i \in 1..26 : CharAt(LowerCase, i) = c
              THEN CharAt(UpperCase,
                          CHOOSE i \in 1..26 : CharAt(LowerCase, i) = c)
              ELSE c) \o Upper(Tail(s))

\* s.split('.')[0]: the text before the first full stop, all of s if none.
BeforeDot(s) ==
    IF \E i \in 1..Len(s) : CharAt(s, i) = "."
    THEN LET i == CHOOSE j \in 1..Len(s) :
                      /\ CharAt(s, j) = "."
                      /\ \A k \in 1..(j - 1) : CharAt(s, k) # "."
         IN  SubSeq(s, 1, i - 1)
    ELSE s

\* The characters of ASCII str.split() takes for blanks: chr(9) to chr(13),
\* chr(28) to chr(31) and the space (those without an escape of their own
\* stand in the literal as they are).
Whitespace == "\t\n\f\r "

IsSpace(c) == \E i \in 1..Len(Whitespace) : CharAt(Whitespace, i) = c

\* s.split()[-1]: the last run of non-blank characters; "" stands for the
\* IndexError of an s that holds none.
LastWord(s) ==
    LET nb == { i \in 1..Len(s) : ~IsSpace(CharAt(s, i)) }
    IN  IF nb = {} THEN ""
        ELSE LET hi == CHOOSE i \in nb : \A j \in nb : j <= i
                 lo == CHOOSE i \in 1..hi :
                           /\ \A j \in i..hi : j \in nb
                           /\ (i = 1 \/ (i - 1) \notin nb)
             IN  SubSeq(s, lo, hi)

IsDigit(c) == \E i \in 1..10 : CharAt("0123456789", i) = c

DigitValue(c) == (CHOOSE i \in 1..10 : CharAt("0123456789", i) = c) - 1

\* The numeral without the sign int() allows in front of it.
Unsigned(w) ==
    IF w # "" /\ CharAt(w, 1) \in {"+", "-"} THEN SubSeq(w, 2, Len(w)) ELSE w

\* Whether int(w) succeeds: an optional sign, then digits, single
\* underscores allowed between digits.
IsNumeral(w) ==
    LET u == Unsigned(w)
    IN  /\ u # ""
        /\ \A i \in 1..Len(u) : IsDigit(CharAt(u, i)) \/ CharAt(u, i) = "_"
        /\ IsDigit(CharAt(u, 1))
        /\ IsDigit(CharAt(u, Len(u)))
        /\ \A i \in 1..(Len(u) - 1) :
               ~(CharAt(u, i) = "_" /\ CharAt(u, i + 1) = "_")

\* The value of the digits of u, its underscores passed over.
RECURSIVE Magnitude(_)
Magnitude(u) ==
    IF u = "" THEN 0
    ELSE IF CharAt(u, Len(u)) = "_" THEN Magnitude(SubSeq(u, 1, Len(u) - 1))
    ELSE 10 * Magnitude(SubSeq(u, 1, Len(u) - 1))
             + DigitValue(CharAt(u, Len(u)))

\* int(w) of a decimal numeral.
ToInt(w) ==
    IF CharAt(w, 1) = "-" THEN 0 - Magnitude(Unsigned(w))
    ELSE Magnitude(Unsigned(w))

\* chr(1) to chr(31), in the order of their codes (the strings of the
\* model hold no chr(0)).
ControlChars == "\t\n\f\r"

\* What repr() writes for the character c of a str between quotes q: the
\* backslash and the quote behind a backslash, tab, line feed and carriage
\* return by their letter, any other control character and chr(127) as
\* \xhh, the two hexadecimal digits of ord(c).
ReprChar(c, q) ==
    LET hex == "0123456789abcdef"
        ord == IF c = "" THEN 127
               ELSE CHOOSE i \in 1..Len(ControlChars) :
                        CharAt(ControlChars, i) = c
    IN  IF c = "\\" \/ c = q THEN "\\" \o c
        ELSE IF c = "\t" THEN "\\t"
        ELSE IF c = "\n" THEN "\\n"
        ELSE IF c = "\r" THEN "\\r"
        ELSE IF c = "" \/ IsSubstring(c, ControlChars)
        THEN "\\x" \o CharAt(hex, (ord \div 16) + 1)
                   \o CharAt(hex, (ord % 16) + 1)
        ELSE c

RECURSIVE ReprBody(_, _)
ReprBody(w, q) ==
    IF w = "" THEN "" ELSE ReprChar(Head(w), q) \o ReprBody(Tail(w), q)

\* repr(w) of a str of ASCII without chr(0): between double quotes when w holds a single
\* quote and no double quote, between single quotes otherwise.
Repr(w) ==
    LET q == IF IsSubstring("'", w) /\ ~IsSubstring("\"", w)
             THEN "\"" ELSE "'"
    IN  q \o ReprBody(w, q) \o q

\* ----------------------------------------------------------- dict methods

DictHas(d, k) == \E i \in 1..Len(d) : d[i][1] = k

DictGet(d, k) == d[CHOOSE i \in 1..Len(d) : d[i][1] = k][2]

\* d[k] = v: an existing key keeps its place, a new key goes last.
DictSet(d, k, v) ==
    IF DictHas(d, k)
    THEN [i \in 1..Len(d) |-> IF d[i][1] = k THEN <<k, v>> ELSE d[i]]
    ELSE Append(d, <<k, v>>)

\* _urlencode(d): "k1=v1&k2=v2" in the dict's order (the keys and values of
\* the model need no percent-quoting).
RECURSIVE Urlencode(_)
Urlencode(d) ==
    IF d = <<>> THEN ""
    ELSE d[1][1] \o "=" \o d[1][2]
         \o (IF Len(d) > 1 THEN "&" ELSE "") \o Urlencode(Tail(d))

\* The iterator `for k, v in d.items()` of _urlencode starts with: the
\* size of the dict it was made on, the items it has passed, and the
\* 'k=v' pieces joined so far.
DictIter(d) == [used |-> Len(d), pos |-> 0, enc |-> ""]

\* The iterator after one more item of d, read as d holds it now.
IterStep(it, d) ==
    [it EXCEPT !.pos = @ + 1,
               !.enc = @ \o (IF it.pos > 0 THEN "&" ELSE "")
                         \o d[it.pos + 1][1] \o "=" \o d[it.pos + 1][2]]

\* ------------------------------------------------------- the environment

\* The integer self._nonce is seeded with at construction: the clock in
\* microseconds (a small stand-in for a 16-digit number).
Seed == 1000
\* How far behind the seed the last nonce the exchange accepted lies.
SeedLead == 10
\* How far another consumer of the key moves the exchange's nonce.
ExternalJump == 100

Threads == 1..NThreads

\* The commands the callers of the model ask for: a Private one, a Public
\* one, and a name in neither list.
CallCommands == { "buy", "returnTicker", "returnTickr" }

\* The dict a caller passes as args when it passes one.
CallerArgs == << <<"currencyPair", "BTC_ETH">> >>

NonceError(x, y) ==
    "Nonce must be greater than " \o ToString(x)
        \o ". You provided " \o ToString(y) \o "."

TryAgainError == "Connection timed out. Please try again."
OrderError == "Not enough BTC."
SignatureError == "Invalid API key/secret pair."
CommandError == "Invalid command."

\* A requests.Response: its status code, whether its text is JSON, and the
\* value json.loads gives for it.
Response(code, isJson, decoded) ==
    [status_code |-> code, valid |-> isJson, out |-> decoded]

DataReply == Response(200, TRUE, << <<"result", "1">> >>)
ErrorReply(msg) == Response(200, TRUE, << <<"error", msg>> >>)
GarbledReply == Response(200, FALSE, <<>>)
GatewayReply == Response(502, FALSE, <<>>)

\* Sign: the HMAC-SHA512 of the encoded arguments under the secret, kept
\* symbolic as the pair it was computed from.
Hmac(sec, msg) == [mac_key |-> sec, mac_msg |-> msg]

\* What the exchange may answer to a POST of the dict `data` signed with
\* `mac` when the last nonce it accepted is `srv`: pairs <<reply, srv'>>.
PrivateReplies(data, mac, sec, srv) ==
    LET y == ToInt(DictGet(data, "nonce"))
    IN  IF mac # Hmac(sec, Urlencode(data))
        THEN { <<ErrorReply(SignatureError), srv>> }
        ELSE IF y <= srv
        THEN { <<ErrorReply(NonceError(srv, y)), srv>>, <<GatewayReply, srv>> }
        ELSE { <<DataReply, y>>, <<ErrorReply(OrderError), y>>,
               <<ErrorReply(TryAgainError), y>>, <<GarbledReply, y>>,
               <<GatewayReply, srv>> }

\* What the exchange may answer to a GET.
PublicReplies ==
    { DataReply, ErrorReply(CommandError), GarbledReply, GatewayReply }

\* ---------------------------------------------------------- PoloniexBase

Raise(kind, msg) == [exc |-> kind, text |-> msg]
Return(v) == [exc |-> "", text |-> v]

\* A fault C7 must detect: only the key is looked at.
_checkCmdKeyOnly(command, k, s) ==
    IF command \in PRIVATE_COMMANDS
    THEN IF k = ""
         THEN Raise("PoloniexError",
                    "An Api Key and Secret needed for command '"
                        \o command \o "'")
         ELSE Return("Private")
    ELSE IF command \in PUBLIC_COMMANDS
    THEN Return("Public")
    ELSE Raise("PoloniexError", "Invalid Command!: " \o command)

\* A fault C8 must detect: the credentials are not looked at.
_checkCmdAnyCaller(command, k, s) ==
    IF command \in PRIVATE_COMMANDS
    THEN Return("Private")
    ELSE IF command \in PUBLIC_COMMANDS
    THEN Return("Public")
    ELSE Raise("PoloniexError", "Invalid Command!: " \o command)

\* PoloniexBase._checkCmd
_checkCmd(command, k, s) ==
    IF command \in PRIVATE_COMMANDS
    THEN IF k = "" \/ s = ""
         THEN Raise("PoloniexError",
                    "An Api Key and Secret needed for command '"
                        \o command \o "'")
         ELSE Return("Private")
    ELSE IF command \in PUBLIC_COMMANDS
    THEN Return("Public")
    ELSE Raise("PoloniexError", "Invalid Command!: " \o command)

\* A fault C27 must detect: the range taken with its upper end, 527.
GatewayStatusThrough527(code) ==
    code = 502 \/ code = 504 \/ code \in 520..527

\* The status codes _handleReturned raises RequestException for.
GatewayStatus(code) == code = 502 \/ code = 504 \/ code \in 520..526

\* A fault C3 must detect: the numeral taken from the second sentence of
\* the message, the value the client provided.
ParseProvided(err) ==
    LastWord(SubSeq(err, Len(BeforeDot(err)) + 2, Len(err) - 1))

\* out['error'].split('.')[0].split()[-1], the numeral int() is given.
ParseNonce(err) == LastWord(BeforeDot(err))

\* What _handleReturned raises or returns, with the value it leaves in
\* self._nonce.
Handled(kind, msg, n) == [exc |-> kind, text |-> msg, nonce |-> n]

\* PoloniexBase._handleReturned on the response `data` when self._nonce
\* is `cur`.
_handleReturned(data, cur) ==
    IF GatewayStatus(data.status_code)
    THEN Handled("RequestException",
                 "Poloniex Network Error " \o ToString(data.status_code), cur)
    ELSE IF ~data.valid
    THEN Handled("PoloniexError", "Invalid json response returned", cur)
    ELSE IF DictHas(data.out, "error")
    THEN LET err == DictGet(data.out, "error")
         IN  IF IsSubstring("Nonce must be greater", err)
             THEN IF ParseNonce(err) = ""
                  THEN Handled("IndexError", "list index out of range", cur)
                  ELSE IF ~IsNumeral(ParseNonce(err))
                  THEN Handled("ValueError",
                               "invalid literal for int() with base 10: "
                                   \o Repr(ParseNonce(err)), cur)
                  ELSE Handled("RequestException", "PoloniexError " \o err,
                               ToInt(ParseNonce(err)))
             ELSE IF IsSubstring("please try again", Lower(err))
             THEN Handled("RequestException", "PoloniexError " \o err, cur)
             ELSE Handled("PoloniexError", err, cur)
    ELSE Handled("", "", cur)

\* The replies that tell of a passing failure: those _handleReturned
\* raises RequestException for, which retrying tries again.
Transient(reply) == _handleReturned(reply, 0).exc = "RequestException"

\* for delay in _chain(retryDelays, [None]): the delay of the idx-th round,
\* -1 standing for None.
DelayAt(idx) == IF idx <= Len(retryDelays) THEN retryDelays[idx] ELSE -1

\* ------------------------------------------------------------------ state

VARIABLES
    key,          \* self.key ("" when absent)
    secret,       \* self.secret ("" when absent)
    coach,        \* whether self.coach is a Coach
    _nonce,       \* self._nonce
    defaultArgs,  \* the dict of __call__'s default argument args={}
    frame,        \* per caller: the locals of retrying and __call__
    trace,        \* per caller: what the call under way has done so far
    callsLeft,    \* per caller: the calls it may still make
    srvNonce,     \* the exchange: the last nonce it accepted for the key
    external,     \* the exchange: nonces other consumers of the key burnt
    failBudget,   \* the exchange: retryable failures it may still answer
                  \* with (-1: any number)
    probe,        \* a single method applied to one input: the input, and
                  \* the outcome once the method has run
    channels,     \* self.channels: per channel name its id, 'sub', 'callback'
    sent,         \* the frames handed to self.socket.send, in order
    sock,         \* the socket: "new", "open" or "closed"
    _running,     \* self._running
    _t,           \* self._t: 0 for None, else the receive task it names
    rx,           \* per receive task: where socket.run_forever stands
    user,         \* the calling thread: the engine method it is inside
    received,     \* the frames on_message has handled, in order
    delivered,    \* the callback calls the last on_message made
    stopLog,      \* what the stopws under way (or last run) has done
    opsLeft       \* the engine calls the user may still make

httpVars ==
    << key, secret, coach, _nonce, defaultArgs, frame, trace, callsLeft,
       srvNonce, external, failBudget >>

wsVars ==
    << channels, sent, sock, _running, _t, rx, user, received, delivered,
       stopLog, opsLeft >>

vars == << httpVars, probe, wsVars >>

Event(name, str, num) == [e |-> name, s |-> str, n |-> num]

NoResponse == Response(0, FALSE, <<>>)

IdleFrame ==
    [pc |-> "idle", method |-> "", command |-> "", own |-> FALSE,
     args |-> <<>>,
     cmdType |-> "", idx |-> 1, problems |-> <<>>, tmp |-> 0, url |-> "",
     it |-> DictIter(<<>>),
     sign |-> Hmac("", ""), body |-> <<>>, ret |-> NoResponse,
     result |-> Return("")]

\* The dict the name args of caller t is bound to.
ArgsOf(t) == IF frame[t].own THEN frame[t].args ELSE defaultArgs

\* args[k] = v in caller t's call: frame' and defaultArgs' after it, the
\* other fields of the frame set by `upd`.
SetArg(t, k, v, upd) ==
    IF frame[t].own
    THEN /\ frame' = [frame EXCEPT ![t] =
                         [upd EXCEPT !.args = DictSet(frame[t].args, k, v)]]
         /\ UNCHANGED defaultArgs
    ELSE /\ frame' = [frame EXCEPT ![t] = upd]
         /\ defaultArgs' = DictSet(defaultArgs, k, v)

Log(t, ev) == trace' = [trace EXCEPT ![t] = Append(@, ev)]

\* What the trace records of a reply: its status code with the error text
\* it carries ("" when it is data, "<html>" when it is no JSON), and the
\* number the exchange names when it rejects the nonce.
ReplyEvents(reply, srv) ==
    LET msg == IF ~reply.valid THEN "<html>"
               ELSE IF DictHas(reply.out, "error")
               THEN DictGet(reply.out, "error") ELSE ""
    IN  << Event("reply", msg, reply.status_code) >>
            \o (IF IsSubstring("Nonce must be greater", msg)
                THEN << Event("rejected", "", srv) >> ELSE <<>>)

\* ------------------------------------------------------ PoloniexSocketed

\* The keys of self.channels in insertion order: the four fixed channels,
\* then one market of the ticker the constructor fetches.
ChannelOrder == << "account", "ticker", "24hvolume", "heartbeat", "BTC_ETH" >>

ChannelNames == { ChannelOrder[i] : i \in 1..Len(ChannelOrder) }

ChannelId(c) ==
    CASE c = "account" -> "1000"
      [] c = "ticker" -> "1002"
      [] c = "24hvolume" -> "1003"
      [] c = "heartbeat" -> "1010"
      [] c = "BTC_ETH" -> "148"

\* What _getChannelName gives for an id no channel has (Python's False).
NoChannel == "False"

\* A channel entry: 'sub' absent reads as False, 'callback' absent is "".
Entry(i, s, cb) == [id |-> i, sub |-> s, callback |-> cb]

\* PoloniexSocketed._getChannelName
_getChannelName(chs, id) ==
    IF \E c \in ChannelNames : chs[c].id = id
    THEN ChannelOrder[CHOOSE i \in 1..Len(ChannelOrder) :
                          /\ chs[ChannelOrder[i]].id = id
                          /\ \A j \in 1..(i - 1) : chs[ChannelOrder[j]].id # id]
    ELSE NoChannel

\* The JSON null of a frame, among the integers that stand for its elements.
Null == -1

\* An inbound frame: a JSON object with an 'error' (err # "") or an array.
ErrorFrame(msg) == [err |-> msg, body |-> <<>>]
ArrayFrame(elems) == [err |-> "", body |-> elems]

\* message[n:] of a Python list.
SliceFrom(m, n) == SubSeq(m, n + 1, Len(m))

\* self.socket._callback(callback, message)
Invoke(cb, message) == [callback |-> cb, args |-> message]

\* What on_message does: the exception it ends with ("" when none) and
\* the callback calls it makes, in order.
Dispatched(kind, calls) == [exc |-> kind, calls |-> calls]

\* The part of on_message after the acknowledgment test, lines 746-757.
Deliver(chs, chan, m) ==
    IF chan = NoChannel
    THEN Dispatched("KeyError", <<>>)
    ELSE IF chs[chan].callback = ""
    THEN Dispatched("", <<>>)
    ELSE IF chan = "heartbeat"
    THEN Dispatched("", << Invoke(chs[chan].callback, m),
                           Invoke(chs[chan].callback, m) >>)
    ELSE IF chan \in {"ticker", "24hvolume"}
    THEN Dispatched("", << Invoke(chs[chan].callback, SliceFrom(m, 2)) >>)
    ELSE Dispatched("", << Invoke(chs[chan].callback, SliceFrom(m, 1)) >>)

\* PoloniexSocketed.on_message on the decoded frame `message`.
on_message(chs, message) ==
    IF message.err # ""
    THEN Dispatched("", <<>>)
    ELSE IF Len(message.body) = 0
    THEN Dispatched("IndexError", <<>>)
    ELSE LET m == message.body
             chan == _getChannelName(chs, ToString(m[1]))
         IN  IF chan # "heartbeat"
             THEN IF Len(m) < 2
                  THEN Dispatched("IndexError", <<>>)
                  ELSE IF m[2] = 1 \/ m[2] = 0
                  THEN Dispatched("", <<>>)
                  ELSE Deliver(chs, chan, m)
             ELSE Deliver(chs, chan, m)

\* A frame handed to socket.send: the command and channel id, and for the
\* account channel the signed payload with the key.
PlainFrame(cmd, id) ==
    [command |-> cmd, channel |-> id, sign |-> Hmac("", ""), key |-> "",
     payload |-> ""]

SignedFrame(cmd, id, k, sec, n) ==
    [command |-> cmd, channel |-> id,
     sign |-> Hmac(sec, Urlencode(<< <<"nonce", ToString(n)>> >>)),
     key |-> k, payload |-> Urlencode(<< <<"nonce", ToString(n)>> >>)]

\* A fault C22 must detect: a credential test that looks at the key only.
NeedsKeyOnly(chan, k, sec) == chan = "account" /\ k = ""

\* The first lines of subscribe and unsubscribe: whether the call raises
\* for want of credentials.
NeedsCredentials(chan, k, sec) == chan = "account" /\ (k = "" \/ sec = "")

\* subscribe, lines 793 and 810, and setSubscribes, line 779: the entry
\* after self.channels[chan]['sub'] = True.
MarkSubscribed(entry) == [entry EXCEPT !.sub = TRUE]

\* unsubscribe, lines 827 and 842.
MarkUnsubscribed(entry) == [entry EXCEPT !.sub = FALSE]

\* setSubscribes: every named channel marked, its callback replaced.
setSubscribes(chs, subs, cb) ==
    [c \in ChannelNames |->
        IF c \in subs THEN [chs[c] EXCEPT !.sub = TRUE, !.callback = cb]
        ELSE chs[c]]

\* self.channels[chan]['callback'] = callback: line 772 of setCallback,
\* line 780 of setSubscribes, lines 795 and 812 of subscribe.
setCallback(chs, chan, cb) == [chs EXCEPT ![chan].callback = cb]

\* self.channels as __init__ builds it, before its subscribe argument.
NewChannels ==
    [c \in ChannelNames |->
        Entry(ChannelId(c), FALSE,
              IF c = "heartbeat" THEN "on_heartbeat" ELSE "")]

TaskIds == 1..MaxStarts

\* The calling thread outside any engine method; err is the exception its
\* last call ended with. Inside a method: n is the nonce a subscribe or
\* unsubscribe of the account channel has read, cb the callback it was
\* passed, subs the channels setSubscribes was passed.
Ready(e) ==
    [op |-> "", pc |-> "", chan |-> "", i |-> 0, n |-> 0, cb |-> "",
     subs |-> {}, err |-> e]

\* A receive task: where run_forever is, the position of on_open in the
\* channels, the nonce its subscribe has read, the frame on_message is
\* handling, and the exception its last callback ended with.
Task(pc, i, chan, e) ==
    [pc |-> pc, i |-> i, chan |-> chan, n |-> 0, msg |-> [err |-> "", body |-> <<>>],
     exc |-> e]

\* The log of the last stopws: the channels marked subscribed and the
\* number of frames sent when it began, whether it slept, the number of
\* frames sent when it closed the socket and when it finished.
\* task is self._t when it began, and again tells that it began right
\* where a stopws that returned had ended, no frame sent in between.
NoStop == [marked |-> {}, from |-> 0, slept |-> FALSE, closedAt |-> -1,
           endAt |-> -1, state |-> "none", task |-> 0, again |-> FALSE]

Finished(log, how, n) == [log EXCEPT !.state = how, !.endAt = n]

\* The engine and receive tasks right after __init__(subscribe=subs).
InitEngine(subs) ==
    /\ channels = setSubscribes(NewChannels, subs, "cbA")
    /\ sent = <<>>
    /\ sock = "new"
    /\ _running = FALSE
    /\ _t = 0
    /\ rx = [k \in TaskIds |-> Task("none", 0, "", "")]
    /\ user = Ready("")
    /\ received = <<>>
    /\ delivered = <<>>
    /\ stopLog = NoStop

\* The outcome of a method that has not run yet.
Pending == [exc |-> "pending", text |-> ""]

NoProbe == [fn |-> "", command |-> "", out |-> Pending]

\* The names _checkCmd is probed with: every listed command, and names in
\* neither list (a misspelt one, one in the wrong case, the empty name).
ProbeCommands ==
    PUBLIC_COMMANDS \cup PRIVATE_COMMANDS \cup {"returnTickr", "BUY", ""}

InitHttp ==
    /\ _nonce = Seed
    /\ defaultArgs = <<>>
    /\ frame = [t \in Threads |-> IdleFrame]
    /\ trace = [t \in Threads |-> <<>>]
    /\ srvNonce = Seed - SeedLead
    /\ external = 0

\* The client part of a PoloniexSocketed right after __init__, whose line
\* 703, tick = self.returnTicker(), has made a call of the Public command
\* on the default dict in the constructing thread (caller 1): the
\* exchange answered some attempts with 502 and then with the ticker.
\* The call has left args['command'] in the dict of the default argument
\* and its record in the caller's frame and trace.
InitSocketed ==
    /\ _nonce = Seed
    /\ srvNonce = Seed - SeedLead
    /\ external = 0
    /\ defaultArgs = DictSet(<<>>, "command", "returnTicker")
    /\ \E fails \in 0..MaxCtorRetries :
          LET url == "https://poloniex.com/public?" \o Urlencode(defaultArgs)
              problem == _handleReturned(GatewayReply, _nonce).text
              round(i, reply) ==
                  << Event("attempt", "", i) >>
                      \o (IF coach THEN << Event("coach", "", 0) >> ELSE <<>>)
                      \o << Event("get", url, 0) >>
                      \o ReplyEvents(reply, srvNonce)
              RECURSIVE rounds(_)
              rounds(i) ==
                  IF i > fails THEN round(i, DataReply)
                  ELSE round(i, GatewayReply)
                           \o << Event("sleep", "", DelayAt(i)) >>
                           \o rounds(i + 1)
          IN  /\ frame =
                    [t \in Threads |->
                        IF t # 1 THEN IdleFrame
                        ELSE [IdleFrame EXCEPT
                                 !.pc = "done",
                                 !.method = "__call__",
                                 !.command = "returnTicker",
                                 !.cmdType = "Public",
                                 !.idx = fails + 1,
                                 !.problems = [i \in 1..fails |-> problem],
                                 !.url = url,
                                 !.it = [used |-> Len(defaultArgs),
                                         pos |-> Len(defaultArgs),
                                         enc |-> Urlencode(defaultArgs)],
                                 !.ret = DataReply,
                                 !.result = Return("out")]]
              /\ trace = [t \in Threads |->
                              IF t = 1 THEN rounds(1) ELSE <<>>]

\* A client whose subscription engine is never used.
InitClient ==
    /\ InitHttp
    /\ InitEngine({})
    /\ opsLeft = 0

\* One caller, calling again and again.
Init ==
    /\ InitClient
    /\ key \in {"", "KEY"}
    /\ secret \in {"", "SECRET"}
    /\ coach \in BOOLEAN
    /\ callsLeft = [t \in Threads |-> IF t = 1 THEN MaxCalls ELSE 0]
    /\ failBudget = -1
    /\ probe = NoProbe

\* Several callers sharing a client that has credentials and a coach, one
\* call each.
InitConc ==
    /\ InitClient
    /\ key = "KEY"
    /\ secret = "SECRET"
    /\ coach = TRUE
    /\ callsLeft = [t \in Threads |-> 1]
    /\ failBudget = MaxFailConc
    /\ probe = NoProbe

\* A client on which one method is run once, no call being made.
InitPure ==
    /\ InitClient
    /\ key \in {"", "KEY"}
    /\ secret \in {"", "SECRET"}
    /\ coach = TRUE
    /\ callsLeft = [t \in Threads |-> 0]
    /\ failBudget = -1
    /\ probe \in { [fn |-> "_checkCmd", command |-> c, out |-> Pending] :
                     c \in ProbeCommands }

\* ---------------------------------------------------------------- actions

\* A caller invokes self(command) or self(command, args): retrying starts
\* with problems = [] at the first delay of the chain.
Call(t) ==
    /\ frame[t].pc \in {"idle", "done"}
    /\ callsLeft[t] > 0
    /\ \E c \in CallCommands, o \in BOOLEAN :
          frame' = [frame EXCEPT ![t] =
                       [IdleFrame EXCEPT !.pc = "attempt",
                                         !.method = "__call__",
                                         !.command = c,
                                         !.own = o,
                                         !.args = IF o THEN CallerArgs
                                                  ELSE <<>>]]
    /\ trace' = [trace EXCEPT ![t] = <<>>]
    /\ callsLeft' = [callsLeft EXCEPT ![t] = @ - 1]
    /\ UNCHANGED << probe, wsVars, key, secret, coach, _nonce, defaultArgs, srvNonce,
                    external, failBudget >>

\* __call__, lines 181-184: cmdType = self._checkCmd(command), whose
\* PoloniexError leaves retrying, then args['command'] = command.
CheckCmd(t) ==
    /\ frame[t].pc = "attempt"
    /\ frame[t].method = "__call__"
    /\ LET f == frame[t]
           r == _checkCmd(f.command, key, secret)
       IN  IF r.exc # ""
           THEN /\ frame' = [frame EXCEPT ![t] =
                                [f EXCEPT !.pc = "done", !.result = r]]
                /\ UNCHANGED defaultArgs
           ELSE SetArg(t, "command", f.command,
                       [f EXCEPT !.cmdType = r.text,
                                 !.pc = IF r.text = "Private" THEN "coach"
                                        ELSE "url"])
    /\ Log(t, Event("attempt", "", frame[t].idx))
    /\ UNCHANGED << probe, wsVars, key, secret, coach, _nonce, callsLeft, srvNonce,
                    external, failBudget >>

\* __call__, line 225: _urlencode(args) begins, its loop over args.items()
\* taking an iterator on the dict as it is now.
EncodeUrl(t) ==
    /\ frame[t].pc = "url"
    /\ frame' = [frame EXCEPT ![t] =
                    [@ EXCEPT !.pc = "urlnext", !.it = DictIter(ArgsOf(t))]]
    /\ UNCHANGED << probe, wsVars, key, secret, coach, _nonce, defaultArgs, trace,
                    callsLeft, srvNonce, external, failBudget >>

\* One round of the loop of _urlencode(args) of line 225: RuntimeError,
\* which retrying lets pass, when the dict has changed size under the
\* iterator; payload['url'] set when the items are through; else one more
\* item encoded.
UrlNext(t) ==
    /\ frame[t].pc = "urlnext"
    /\ LET f == frame[t]
       IN  frame' = [frame EXCEPT ![t] =
               IF Len(ArgsOf(t)) # f.it.used
               THEN [f EXCEPT !.pc = "done",
                              !.result = Raise("RuntimeError",
                                  "dictionary changed size during iteration")]
               ELSE IF f.it.pos >= Len(ArgsOf(t))
               THEN [f EXCEPT !.pc = "coach",
                              !.url = "https://poloniex.com/public?"
                                          \o f.it.enc]
               ELSE [f EXCEPT !.it = IterStep(f.it, ArgsOf(t))]]
    /\ UNCHANGED << probe, wsVars, key, secret, coach, _nonce, defaultArgs, trace,
                    callsLeft, srvNonce, external, failBudget >>

\* A fault C14 and C15 must detect: the wait on the coach is left out.
CoachSkipped(t) ==
    /\ frame[t].pc = "coach"
    /\ frame' = [frame EXCEPT ![t] =
                    [@ EXCEPT !.pc = IF frame[t].cmdType = "Private"
                                     THEN "load" ELSE "send"]]
    /\ UNCHANGED << probe, wsVars, key, secret, coach, _nonce, defaultArgs,
                    trace, callsLeft, srvNonce, external, failBudget >>

\* __call__, lines 194-195 and 228-229: if self.coach: self.coach.wait().
CoachWait(t) ==
    /\ frame[t].pc = "coach"
    /\ frame' = [frame EXCEPT ![t] =
                    [@ EXCEPT !.pc = IF frame[t].cmdType = "Private"
                                     THEN "load" ELSE "send"]]
    /\ IF coach THEN Log(t, Event("coach", "", 0)) ELSE UNCHANGED trace
    /\ UNCHANGED << probe, wsVars, key, secret, coach, _nonce, defaultArgs, callsLeft,
                    srvNonce, external, failBudget >>

\* The nonce property, self._nonce += 42: the load of self._nonce.
NonceLoad(t) ==
    /\ frame[t].pc = "load"
    /\ frame' = [frame EXCEPT ![t] = [@ EXCEPT !.pc = "store", !.tmp = _nonce]]
    /\ UNCHANGED << probe, wsVars, key, secret, coach, _nonce, defaultArgs, trace,
                    callsLeft, srvNonce, external, failBudget >>

\* A fault C13 must detect: the nonce is returned without being advanced.
NotIncremented(loaded) == loaded

\* A fault C2 must detect: a stride of one.
IncrementedByOne(loaded) == loaded + 1

\* The value NonceStore writes back.
Incremented(loaded) == loaded + NonceStride

\* self._nonce += 42: the store of the sum.
NonceStore(t) ==
    /\ frame[t].pc = "store"
    /\ _nonce' = Incremented(frame[t].tmp)
    /\ frame' = [frame EXCEPT ![t] = [@ EXCEPT !.pc = "return"]]
    /\ UNCHANGED << probe, wsVars, key, secret, coach, defaultArgs, trace, callsLeft,
                    srvNonce, external, failBudget >>

\* return self._nonce (line 243): the value the property hands to line 198.
NonceReturn(t) ==
    /\ frame[t].pc = "return"
    /\ frame' = [frame EXCEPT ![t] = [@ EXCEPT !.pc = "setnonce", !.tmp = _nonce]]
    /\ Log(t, Event("nonce", "", _nonce))
    /\ UNCHANGED << probe, wsVars, key, secret, coach, _nonce, defaultArgs,
                    callsLeft, srvNonce, external, failBudget >>

\* __call__, line 198: args['nonce'] = the value the property returned.
NonceAssign(t) ==
    /\ frame[t].pc = "setnonce"
    /\ SetArg(t, "nonce", ToString(frame[t].tmp),
              [frame[t] EXCEPT !.pc = "sign"])
    /\ UNCHANGED << probe, wsVars, key, secret, coach, _nonce, trace, callsLeft,
                    srvNonce, external, failBudget >>

\* __call__, lines 201-206: payload['data'] = args, and _urlencode(args)
\* for the Sign header begins, with an iterator on args as it is now.
Sign(t) ==
    /\ frame[t].pc = "sign"
    /\ frame' = [frame EXCEPT ![t] =
                    [@ EXCEPT !.pc = "signnext", !.it = DictIter(ArgsOf(t))]]
    /\ UNCHANGED << probe, wsVars, key, secret, coach, _nonce, defaultArgs, trace,
                    callsLeft, srvNonce, external, failBudget >>

\* One round of the loop of _urlencode(args) of line 206, as in UrlNext;
\* when the items are through, lines 204-211 compute the Sign header over
\* what the loop has encoded.
SignNext(t) ==
    /\ frame[t].pc = "signnext"
    /\ LET f == frame[t]
       IN  IF Len(ArgsOf(t)) # f.it.used
           THEN /\ frame' = [frame EXCEPT ![t] =
                       [f EXCEPT !.pc = "done",
                                 !.result = Raise("RuntimeError",
                                     "dictionary changed size during iteration")]]
                /\ UNCHANGED trace
           ELSE IF f.it.pos >= Len(ArgsOf(t))
           THEN /\ frame' = [frame EXCEPT ![t] =
                       [f EXCEPT !.pc = "send",
                                 !.sign = Hmac(secret, f.it.enc)]]
                /\ Log(t, Event("sign", f.it.enc, 0))
           ELSE /\ frame' = [frame EXCEPT ![t] =
                       [f EXCEPT !.it = IterStep(f.it, ArgsOf(t))]]
                /\ UNCHANGED trace
    /\ UNCHANGED << probe, wsVars, key, secret, coach, _nonce, defaultArgs,
                    callsLeft, srvNonce, external, failBudget >>

\* The exchange answers: a transient failure uses up the failure budget.
Answer(reply) ==
    /\ Transient(reply) => failBudget # 0
    /\ failBudget' = IF Transient(reply) /\ failBudget > 0
                     THEN failBudget - 1 ELSE failBudget

\* __call__, line 217: self.session.post(**payload) prepares the request;
\* the body sent is args as it is now, whatever is written to the dict
\* while the request is on its way.
Post(t) ==
    /\ frame[t].pc = "send"
    /\ frame[t].cmdType = "Private"
    /\ frame' = [frame EXCEPT ![t] =
                    [@ EXCEPT !.pc = "posted", !.body = ArgsOf(t)]]
    /\ trace' = [trace EXCEPT ![t] =
           Append(@, Event("post", Urlencode(ArgsOf(t)),
                           ToInt(DictGet(ArgsOf(t), "nonce"))))]
    /\ UNCHANGED << probe, wsVars, key, secret, coach, _nonce, defaultArgs, callsLeft,
                    srvNonce, external, failBudget >>

\* __call__, line 217: the exchange handles the request that was sent, and
\* session.post returns its reply.
PostReply(t) ==
    /\ frame[t].pc = "posted"
    /\ \E rp \in PrivateReplies(frame[t].body, frame[t].sign, secret, srvNonce) :
          /\ Answer(rp[1])
          /\ frame' = [frame EXCEPT ![t] =
                          [@ EXCEPT !.pc = "handle", !.ret = rp[1]]]
          /\ srvNonce' = rp[2]
          /\ trace' = [trace EXCEPT ![t] = @ \o ReplyEvents(rp[1], srvNonce)]
    /\ UNCHANGED << probe, wsVars, key, secret, coach, _nonce, defaultArgs, callsLeft,
                    external >>

\* __call__, line 234: ret = self.session.get(**payload).
Get(t) ==
    /\ frame[t].pc = "send"
    /\ frame[t].cmdType = "Public"
    /\ \E reply \in PublicReplies :
          /\ Answer(reply)
          /\ frame' = [frame EXCEPT ![t] =
                          [@ EXCEPT !.pc = "handle", !.ret = reply]]
          /\ trace' = [trace EXCEPT ![t] =
                 Append(@, Event("get", frame[t].url, 0))
                     \o ReplyEvents(reply, srvNonce)]
    /\ UNCHANGED << probe, wsVars, key, secret, coach, _nonce, defaultArgs, callsLeft,
                    srvNonce, external >>

\* A caller invokes self.marketTradeHist(currencyPair): retrying starts as
\* for __call__; start and end keep their default False.
MarketTradeHist(t) ==
    /\ frame[t].pc \in {"idle", "done"}
    /\ callsLeft[t] > 0
    /\ \E pair \in { "btc_eth" } :
          frame' = [frame EXCEPT ![t] =
                       [IdleFrame EXCEPT
                           !.pc = "attempt",
                           !.method = "marketTradeHist",
                           !.command = "marketTradeHist",
                           !.own = TRUE,
                           !.args = << <<"currencyPair", pair>> >>]]
    /\ trace' = [trace EXCEPT ![t] = <<>>]
    /\ callsLeft' = [callsLeft EXCEPT ![t] = @ - 1]
    /\ UNCHANGED << probe, wsVars, key, secret, coach, _nonce, defaultArgs,
                    srvNonce, external, failBudget >>

\* marketTradeHist, lines 302-303: if self.coach: self.coach.wait(), the
\* first thing an attempt does.
HistCoachWait(t) ==
    /\ frame[t].pc = "attempt"
    /\ frame[t].method = "marketTradeHist"
    /\ frame' = [frame EXCEPT ![t] = [@ EXCEPT !.pc = "histget"]]
    /\ trace' = [trace EXCEPT ![t] =
           @ \o << Event("attempt", "", frame[t].idx) >>
             \o (IF coach THEN << Event("coach", "", 0) >> ELSE <<>>)]
    /\ UNCHANGED << probe, wsVars, key, secret, coach, _nonce, defaultArgs,
                    callsLeft, srvNonce, external, failBudget >>

\* marketTradeHist, lines 304-305: the dict of the request, built anew in
\* every attempt.
HistArgs(currencyPair) ==
    << <<"command", "returnTradeHistory">>,
       <<"currencyPair", Upper(currencyPair)>> >>

\* marketTradeHist, lines 310-312: ret = self.session.get(url).
HistGet(t) ==
    /\ frame[t].pc = "histget"
    /\ \E reply \in PublicReplies :
          LET url == "https://poloniex.com/public?"
                         \o Urlencode(HistArgs(DictGet(frame[t].args,
                                                       "currencyPair")))
          IN  /\ Answer(reply)
              /\ frame' = [frame EXCEPT ![t] =
                              [@ EXCEPT !.pc = "handle", !.url = url,
                                        !.ret = reply]]
              /\ trace' = [trace EXCEPT ![t] =
                     Append(@, Event("get", url, 0))
                         \o ReplyEvents(reply, srvNonce)]
    /\ UNCHANGED << probe, wsVars, key, secret, coach, _nonce, defaultArgs,
                    callsLeft, srvNonce, external >>

\* A fault C4 must detect: no exception is retried.
RetryingNothing(f, h) ==
    IF h.exc = ""
    THEN [f EXCEPT !.pc = "done", !.result = Return("out")]
    ELSE [f EXCEPT !.pc = "done", !.result = Raise(h.exc, h.text)]

\* A fault C16 must detect: the error of the last round reports the first
\* problem of the call.
RetryingReportsFirst(f, h) ==
    IF h.exc = ""
    THEN [f EXCEPT !.pc = "done", !.result = Return("out")]
    ELSE IF h.exc = "RequestException"
    THEN IF DelayAt(f.idx) = -1
         THEN [f EXCEPT !.pc = "done",
                        !.problems = Append(@, h.text),
                        !.result = Raise("RetryException",
                                         "retryDelays exhausted "
                                            \o Head(Append(f.problems, h.text)))]
         ELSE [f EXCEPT !.pc = "attempt",
                        !.problems = Append(@, h.text),
                        !.idx = @ + 1]
    ELSE [f EXCEPT !.pc = "done", !.result = Raise(h.exc, h.text)]

\* A fault C6 must detect: every exception is retried.
RetryingEverything(f, h) ==
    IF h.exc = ""
    THEN [f EXCEPT !.pc = "done", !.result = Return("out")]
    ELSE IF DelayAt(f.idx) = -1
    THEN [f EXCEPT !.pc = "done",
                   !.problems = Append(@, h.text),
                   !.result = Raise("RetryException",
                                    "retryDelays exhausted " \o h.text)]
    ELSE [f EXCEPT !.pc = "attempt",
                   !.problems = Append(@, h.text),
                   !.idx = @ + 1]

\* The wrapper `retrying` of _retry around one attempt that ended as h:
\* the value returned, or the problem recorded and then RetryException on
\* the last round or the next round after the sleep, or the exception
\* passed on.
Retrying(f, h) ==
    IF h.exc = ""
    THEN [f EXCEPT !.pc = "done", !.result = Return("out")]
    ELSE IF h.exc = "RequestException"
    THEN IF DelayAt(f.idx) = -1
         THEN [f EXCEPT !.pc = "done",
                        !.problems = Append(@, h.text),
                        !.result = Raise("RetryException",
                                         "retryDelays exhausted " \o h.text)]
         ELSE [f EXCEPT !.pc = "attempt",
                        !.problems = Append(@, h.text),
                        !.idx = @ + 1]
    ELSE [f EXCEPT !.pc = "done", !.result = Raise(h.exc, h.text)]

\* return self._handleReturned(ret), and the except clause of retrying
\* around it: the problem recorded, then RetryException or sleep(delay).
HandleReturned(t) ==
    /\ frame[t].pc = "handle"
    /\ LET f == frame[t]
           h == _handleReturned(f.ret, _nonce)
           g == Retrying(f, h)
       IN  /\ _nonce' = h.nonce
           /\ frame' = [frame EXCEPT ![t] = g]
           /\ trace' = [trace EXCEPT ![t] =
                  @ \o (IF h.exc = "RequestException"
                           /\ IsSubstring("Nonce must be greater", h.text)
                        THEN << Event("resync", "", h.nonce) >> ELSE <<>>)
                    \o (IF g.pc = "attempt"
                        THEN << Event("sleep", "", DelayAt(f.idx)) >>
                        ELSE <<>>)]
    /\ UNCHANGED << probe, wsVars, key, secret, coach, defaultArgs, callsLeft, srvNonce,
                    external, failBudget >>

\* Another consumer of the same API key has a request accepted, just ahead
\* of a signed request of this client (the only time it makes a difference).
ExternalNonce ==
    /\ external < MaxExternal
    /\ \E t \in Threads : frame[t].pc = "send" /\ frame[t].cmdType = "Private"
    /\ external' = external + 1
    /\ srvNonce' = srvNonce + ExternalJump
    /\ UNCHANGED << probe, wsVars, key, secret, coach, _nonce, defaultArgs, frame, trace,
                    callsLeft, failBudget >>

\* self._checkCmd(command) run on its own.
ApplyCheckCmd ==
    /\ probe.fn = "_checkCmd"
    /\ probe.out = Pending
    /\ probe' = [probe EXCEPT !.out = _checkCmd(probe.command, key, secret)]
    /\ UNCHANGED << httpVars, wsVars >>

Next ==
    \/ \E t \in Threads :
          \/ Call(t)
          \/ CheckCmd(t)
          \/ EncodeUrl(t)
          \/ UrlNext(t)
          \/ CoachWait(t)
          \/ NonceLoad(t)
          \/ NonceStore(t)
          \/ NonceReturn(t)
          \/ NonceAssign(t)
          \/ Sign(t)
          \/ SignNext(t)
          \/ Post(t)
          \/ PostReply(t)
          \/ Get(t)
          \/ HandleReturned(t)
          \/ MarketTradeHist(t)
          \/ HistCoachWait(t)
          \/ HistGet(t)
    \/ ExternalNonce

Spec == Init /\ [][Next]_vars

SpecConc == InitConc /\ [][Next]_vars

\* One caller with credentials making several calls one after the other,
\* the exchange answering each request without a passing failure.
InitSeq ==
    /\ InitClient
    /\ key = "KEY"
    /\ secret = "SECRET"
    /\ coach = TRUE
    /\ callsLeft = [t \in Threads |-> IF t = 1 THEN MaxSeqCalls ELSE 0]
    /\ failBudget = 0
    /\ probe = NoProbe

NextSeq ==
    \/ Call(1)
    \/ CheckCmd(1)
    \/ EncodeUrl(1)
    \/ UrlNext(1)
    \/ CoachWait(1)
    \/ NonceLoad(1)
    \/ NonceStore(1)
    \/ NonceReturn(1)
    \/ NonceAssign(1)
    \/ Sign(1)
    \/ SignNext(1)
    \/ Post(1)
    \/ PostReply(1)
    \/ Get(1)
    \/ HandleReturned(1)

SpecSeq == InitSeq /\ [][NextSeq]_vars

\* The responses _handleReturned is probed with: status codes on both
\* sides of every edge of the test of line 262, each with every body.
ProbeStatuses == {200, 500, 501, 502, 503, 504, 505, 519, 520, 523, 526, 527}

ProbeErrors ==
    { NonceError(1100, 1000),
      "nonce must be greater than 1100. You provided 1000.",
      "NONCE MUST BE GREATER THAN 1100. YOU PROVIDED 1000.",
      TryAgainError, "PLEASE TRY AGAIN LATER.", OrderError }

ProbeResponses ==
    { Response(code, DataReply.valid, DataReply.out) :
          code \in ProbeStatuses }
    \cup { Response(code, GarbledReply.valid, GarbledReply.out) :
               code \in ProbeStatuses }
    \cup { Response(code, TRUE, ErrorReply(msg).out) :
               code \in ProbeStatuses, msg \in ProbeErrors }

\* A client on which _handleReturned is run once on a response.
InitHandle ==
    /\ InitClient
    /\ key = "KEY"
    /\ secret = "SECRET"
    /\ coach = TRUE
    /\ callsLeft = [t \in Threads |-> 0]
    /\ failBudget = -1
    /\ probe \in { [fn |-> "_handleReturned", data |-> r, out |-> Pending] :
                       r \in ProbeResponses }

\* self._handleReturned(data) run on its own.
ApplyHandleReturned ==
    /\ probe.fn = "_handleReturned"
    /\ probe.out = Pending
    /\ probe' = [probe EXCEPT !.out = _handleReturned(probe.data, _nonce)]
    /\ _nonce' = _handleReturned(probe.data, _nonce).nonce
    /\ UNCHANGED << key, secret, coach, defaultArgs, frame, trace, callsLeft,
                    srvNonce, external, failBudget, wsVars >>

NextHandle == ApplyHandleReturned

SpecHandle == InitHandle /\ [][NextHandle]_vars

NextPure == ApplyCheckCmd

SpecPure == InitPure /\ [][NextPure]_vars

\* ------------------------------------------- the subscription engine

\* The channels the calling thread names, and the callbacks it passes.
UserChannels == {"account", "ticker", "BTC_ETH"}

UserCallbacks == {"", "cbB"}

\* The channels setCallback is called with, by name and by id (one id
\* that no channel has).
CallbackChannels == {"ticker", "heartbeat"}

CallbackIds == {148, 999}

\* The subscribe argument of the constructor, each with callback "cbA".
InitialSubscribes == { {}, {"ticker"}, {"account", "ticker"} }

\* The frames the exchange pushes: acknowledgments, data frames with and
\* without a sequence number (of the ticker and of a market, each also
\* with the sequence number 1), a heartbeat, an error object, and frames
\* of a channel id no channel has.
InboundFrames ==
    { ArrayFrame(<<1002, 1>>), ArrayFrame(<<1002, 0>>),
      ArrayFrame(<<1002, Null, 7, 8>>), ArrayFrame(<<1002, 1, 7, 8>>),
      ArrayFrame(<<1010>>),
      ArrayFrame(<<148, 5, 7>>), ArrayFrame(<<148, 1, 7>>),
      ArrayFrame(<<999, 5, 7>>), ErrorFrame("Invalid channel.") }

\* The first position at or after i of a channel named in subs, one past
\* the end when there is none: the loop `for sub in subs` of setSubscribes,
\* the caller naming the channels in the order self.channels has them.
NextNamed(subs, i) ==
    IF \E j \in i..Len(ChannelOrder) : ChannelOrder[j] \in subs
    THEN CHOOSE j \in i..Len(ChannelOrder) :
             /\ ChannelOrder[j] \in subs
             /\ \A h \in i..(j - 1) : ChannelOrder[h] \notin subs
    ELSE Len(ChannelOrder) + 1

\* socket.send belongs to the transport: it takes the frame of a
\* connected socket, and takes or refuses the frame of one that is not.
SendOutcomes(s) ==
    IF s = "open" THEN {""} ELSE {"", "WebSocketConnectionClosedException"}

\* Where subscribe or unsubscribe goes after the marking: to the nonce
\* property for the account channel (payload = {'nonce': self.nonce}),
\* straight to socket.send for any other.
AfterMark(chan, nonce, send) == IF chan = "account" THEN nonce ELSE send

\* socket.send(_dumps({...})) of subscribe or unsubscribe: the frame is
\* signed with the nonce n read before; `out` is what the transport does
\* with the frame.
SendFrame(cmd, chan, n, out) ==
    sent' = IF out # "" THEN sent
            ELSE IF chan = "account"
            THEN Append(sent, SignedFrame(cmd, channels[chan].id, key,
                                          secret, n))
            ELSE Append(sent, PlainFrame(cmd, channels[chan].id))

httpRest ==
    << key, secret, coach, defaultArgs, frame, trace, callsLeft, srvNonce,
       external, failBudget, probe >>

\* The calling thread enters subscribe(chan, cb): the credential test,
\* then self.channels[chan]['sub'] = True (line 793 or 810).
Subscribe(chan, cb) ==
    /\ user.op = ""
    /\ opsLeft > 0
    /\ opsLeft' = opsLeft - 1
    /\ IF NeedsCredentials(chan, key, secret)
       THEN /\ user' = Ready("PoloniexError")
            /\ UNCHANGED channels
       ELSE /\ user' = [Ready("") EXCEPT
                            !.op = "subscribe",
                            !.pc = IF cb # "" THEN "callback"
                                   ELSE AfterMark(chan, "load", "send"),
                            !.chan = chan,
                            !.cb = cb]
            /\ channels' = [channels EXCEPT ![chan] = MarkSubscribed(@)]
    /\ UNCHANGED << httpRest, _nonce, sent, sock, _running, _t, rx,
                    received, delivered, stopLog >>

\* subscribe, lines 794-795 and 811-812: if callback: the callback of the
\* entry is replaced, a step after the marking.
SubscribeCallback ==
    /\ user.op = "subscribe"
    /\ user.pc = "callback"
    /\ channels' = setCallback(channels, user.chan, user.cb)
    /\ user' = [user EXCEPT !.pc = AfterMark(user.chan, "load", "send")]
    /\ UNCHANGED << httpRest, _nonce, sent, sock, _running, _t, rx,
                    received, delivered, stopLog, opsLeft >>

\* The calling thread enters unsubscribe(chan).
Unsubscribe(chan) ==
    /\ user.op = ""
    /\ opsLeft > 0
    /\ opsLeft' = opsLeft - 1
    /\ IF NeedsCredentials(chan, key, secret)
       THEN /\ user' = Ready("PoloniexError")
            /\ UNCHANGED channels
       ELSE /\ user' = [Ready("") EXCEPT
                            !.op = "unsubscribe",
                            !.pc = AfterMark(chan, "load", "send"),
                            !.chan = chan]
            /\ channels' = [channels EXCEPT ![chan] = MarkUnsubscribed(@)]
    /\ UNCHANGED << httpRest, _nonce, sent, sock, _running, _t, rx,
                    received, delivered, stopLog >>

\* The nonce property read by the calling thread inside subscribe or
\* unsubscribe (its own call or the one stopws makes), lines 241-243 as in
\* NonceLoad, NonceStore and NonceReturn.
UserNonceLoad ==
    /\ user.op # ""
    /\ user.pc = "load"
    /\ user' = [user EXCEPT !.pc = "store", !.n = _nonce]
    /\ UNCHANGED << httpRest, _nonce, channels, sent, sock, _running, _t, rx,
                    received, delivered, stopLog, opsLeft >>

UserNonceStore ==
    /\ user.op # ""
    /\ user.pc = "store"
    /\ _nonce' = Incremented(user.n)
    /\ user' = [user EXCEPT !.pc = "return"]
    /\ UNCHANGED << httpRest, channels, sent, sock, _running, _t, rx,
                    received, delivered, stopLog, opsLeft >>

UserNonceReturn ==
    /\ user.op # ""
    /\ user.pc = "return"
    /\ user' = [user EXCEPT !.pc = "send", !.n = _nonce]
    /\ UNCHANGED << httpRest, _nonce, channels, sent, sock, _running, _t, rx,
                    received, delivered, stopLog, opsLeft >>

\* The calling thread's subscribe or unsubscribe sends its frame.
UserSend ==
    /\ user.op \in {"subscribe", "unsubscribe"}
    /\ user.pc = "send"
    /\ \E out \in SendOutcomes(sock) :
          /\ SendFrame(user.op, user.chan, user.n, out)
          /\ user' = Ready(out)
    /\ UNCHANGED << httpRest, _nonce, channels, sock, _running, _t, rx,
                    received, delivered, stopLog, opsLeft >>

\* The calling thread runs setCallback(chan, callback) with a channel
\* name: the callback of the entry replaced, nothing marked.
SetCallback(chan, cb) ==
    /\ user.op = ""
    /\ opsLeft > 0
    /\ opsLeft' = opsLeft - 1
    /\ channels' = setCallback(channels, chan, cb)
    /\ user' = Ready("")
    /\ UNCHANGED << httpRest, _nonce, sent, sock, _running, _t, rx,
                    received, delivered, stopLog >>

\* setCallback(id, callback) with an integer: the channel looked up by
\* its id, a KeyError when no channel has it.
SetCallbackById(id, cb) ==
    /\ user.op = ""
    /\ opsLeft > 0
    /\ opsLeft' = opsLeft - 1
    /\ IF _getChannelName(channels, ToString(id)) = NoChannel
       THEN /\ user' = Ready("KeyError")
            /\ UNCHANGED channels
       ELSE /\ user' = Ready("")
            /\ channels' = setCallback(channels,
                                       _getChannelName(channels, ToString(id)),
                                       cb)
    /\ UNCHANGED << httpRest, _nonce, sent, sock, _running, _t, rx,
                    received, delivered, stopLog >>

\* The calling thread enters setSubscribes(**subs), every value being cb:
\* the first channel named is marked (line 779).
SetSubscribes(subs, cb) ==
    /\ user.op = ""
    /\ opsLeft > 0
    /\ opsLeft' = opsLeft - 1
    /\ LET j == NextNamed(subs, 1)
       IN  IF j > Len(ChannelOrder)
           THEN /\ user' = Ready("")
                /\ UNCHANGED channels
           ELSE /\ user' = [Ready("") EXCEPT
                                !.op = "setSubscribes", !.pc = "callback",
                                !.i = j, !.chan = ChannelOrder[j],
                                !.cb = cb, !.subs = subs]
                /\ channels' = [channels EXCEPT
                                   ![ChannelOrder[j]] = MarkSubscribed(@)]
    /\ UNCHANGED << httpRest, _nonce, sent, sock, _running, _t, rx,
                    received, delivered, stopLog >>

\* setSubscribes, line 780: the callback of the channel just marked is
\* replaced; the loop goes on to the next channel named, or ends.
SetSubscribesCallback ==
    /\ user.op = "setSubscribes"
    /\ user.pc = "callback"
    /\ channels' = setCallback(channels, user.chan, user.cb)
    /\ LET j == NextNamed(user.subs, user.i + 1)
       IN  user' = IF j > Len(ChannelOrder) THEN Ready("")
                   ELSE [user EXCEPT !.pc = "mark", !.i = j,
                                     !.chan = ChannelOrder[j]]
    /\ UNCHANGED << httpRest, _nonce, sent, sock, _running, _t, rx,
                    received, delivered, stopLog, opsLeft >>

\* setSubscribes, line 779, for a channel after the first.
SetSubscribesMark ==
    /\ user.op = "setSubscribes"
    /\ user.pc = "mark"
    /\ channels' = [channels EXCEPT ![user.chan] = MarkSubscribed(@)]
    /\ user' = [user EXCEPT !.pc = "callback"]
    /\ UNCHANGED << httpRest, _nonce, sent, sock, _running, _t, rx,
                    received, delivered, stopLog, opsLeft >>

\* Whether receive task k is inside the transport, connecting or waiting
\* for a frame, where socket.close() ends run_forever; a task inside
\* on_open runs that callback to its end first.
Blocked(k) == rx[k].pc \in {"connecting", "listen"}

\* Where a task goes when on_open or on_message is over: back to the
\* transport, which reads frames while the socket is connected and returns
\* once it is closed.
AfterOpen == IF sock = "closed" THEN "closing" ELSE "listen"

\* startws(): a new thread running socket.run_forever, kept in self._t.
Startws ==
    /\ user.op = ""
    /\ opsLeft > 0
    /\ opsLeft' = opsLeft - 1
    /\ \E k \in DOMAIN rx :
          /\ rx[k].pc = "none"
          /\ \A j \in 1..(k - 1) : rx[j].pc # "none"
          /\ _t' = k
          /\ rx' = [rx EXCEPT ![k] = Task("connecting", 0, "", "")]
    /\ _running' = TRUE
    /\ user' = Ready("")
    /\ UNCHANGED << httpRest, _nonce, channels, sent, sock, received,
                    delivered, stopLog >>

\* stopws(), line 862: self._running = False; the log of this stop opens
\* with the channels marked subscribed and the frames sent so far.
Stopws ==
    /\ user.op = ""
    /\ opsLeft > 0
    /\ opsLeft' = opsLeft - 1
    /\ _running' = FALSE
    /\ user' = [Ready("") EXCEPT !.op = "stopws", !.pc = "loop", !.i = 1]
    /\ stopLog' = [marked |-> {c \in ChannelNames : channels[c].sub},
                   from |-> Len(sent), slept |-> FALSE, closedAt |-> -1,
                   endAt |-> -1, state |-> "running", task |-> _t,
                   again |-> (stopLog.state = "returned"
                                 /\ stopLog.endAt = Len(sent))]
    /\ UNCHANGED << httpRest, _nonce, channels, sent, sock, _t, rx,
                    received, delivered >>

\* stopws, lines 864-866: one round of the loop. The channel at hand is
\* passed over when it is not marked subscribed (the two reads of line 865
\* decide as one read does); else unsubscribe(chan) is entered, which
\* raises out of stopws for want of credentials. After the last channel
\* the loop is over.
StopLoop ==
    /\ user.op = "stopws"
    /\ user.pc = "loop"
    /\ IF user.i > Len(ChannelOrder)
       THEN /\ user' = [user EXCEPT !.pc = "sleep"]
            /\ UNCHANGED stopLog
       ELSE IF ~channels[ChannelOrder[user.i]].sub
       THEN /\ user' = [user EXCEPT !.i = @ + 1]
            /\ UNCHANGED stopLog
       ELSE IF NeedsCredentials(ChannelOrder[user.i], key, secret)
       THEN /\ user' = Ready("PoloniexError")
            /\ stopLog' = Finished(stopLog, "raised", Len(sent))
       ELSE /\ user' = [user EXCEPT !.pc = "unmark",
                                    !.chan = ChannelOrder[user.i]]
            /\ UNCHANGED stopLog
    /\ UNCHANGED << httpRest, _nonce, channels, sent, sock, _running, _t, rx,
                    received, delivered, opsLeft >>

\* The unsubscribe called by stopws, line 827 or 842:
\* self.channels[chan]['sub'] = False.
StopUnmark ==
    /\ user.op = "stopws"
    /\ user.pc = "unmark"
    /\ channels' = [channels EXCEPT ![user.chan] = MarkUnsubscribed(@)]
    /\ user' = [user EXCEPT !.pc = AfterMark(user.chan, "load", "send")]
    /\ UNCHANGED << httpRest, _nonce, sent, sock, _running, _t, rx,
                    received, delivered, stopLog, opsLeft >>

\* The unsubscribe called by stopws sends its frame; a refusal of the
\* transport raises out of stopws.
StopSend ==
    /\ user.op = "stopws"
    /\ user.pc = "send"
    /\ \E out \in SendOutcomes(sock) :
          /\ SendFrame("unsubscribe", user.chan, user.n, out)
          /\ IF out = ""
             THEN /\ user' = [user EXCEPT !.pc = "loop", !.i = @ + 1,
                                          !.chan = ""]
                  /\ UNCHANGED stopLog
             ELSE /\ user' = Ready(out)
                  /\ stopLog' = Finished(stopLog, "raised", Len(sent))
    /\ UNCHANGED << httpRest, _nonce, channels, sock, _running, _t, rx,
                    received, delivered, opsLeft >>

\* stopws, line 867: sleep(wait).
StopSleep ==
    /\ user.op = "stopws"
    /\ user.pc = "sleep"
    /\ user' = [user EXCEPT !.pc = "close"]
    /\ stopLog' = [stopLog EXCEPT !.slept = TRUE]
    /\ UNCHANGED << httpRest, _nonce, channels, sent, sock, _running, _t,
                    rx, received, delivered, opsLeft >>

\* stopws, lines 868-871: self.socket.close(), which ends run_forever in
\* every task that waits in it.
StopClose ==
    /\ user.op = "stopws"
    /\ user.pc = "close"
    /\ sock' = "closed"
    /\ rx' = [k \in DOMAIN rx |->
                 IF Blocked(k) THEN [rx[k] EXCEPT !.pc = "closing"]
                 ELSE rx[k]]
    /\ user' = [user EXCEPT !.pc = "join"]
    /\ stopLog' = [stopLog EXCEPT !.closedAt = Len(sent)]
    /\ UNCHANGED << httpRest, _nonce, channels, sent, _running, _t,
                    received, delivered, opsLeft >>

\* stopws, line 872: self._t.join(), an AttributeError while self._t is
\* None, else a wait for the thread to end.
StopJoin ==
    /\ user.op = "stopws"
    /\ user.pc = "join"
    /\ IF _t = 0
       THEN /\ user' = Ready("AttributeError")
            /\ stopLog' = Finished(stopLog, "raised", Len(sent))
       ELSE /\ rx[_t].pc = "exited"
            /\ user' = Ready("")
            /\ stopLog' = Finished(stopLog, "returned", Len(sent))
    /\ UNCHANGED << httpRest, _nonce, channels, sent, sock, _running, _t,
                    rx, received, delivered, opsLeft >>

\* run_forever connects the socket and calls on_open.
RxConnect(k) ==
    /\ rx[k].pc = "connecting"
    /\ sock' = "open"
    /\ rx' = [rx EXCEPT ![k] = Task("open", 1, "", "")]
    /\ UNCHANGED << httpRest, _nonce, channels, sent, _running, _t, user,
                    received, delivered, stopLog, opsLeft >>

\* on_open, lines 718-720: one round of the loop. The channel at hand is
\* passed over when it is not marked subscribed (the two reads of line 719
\* decide as one read does); else subscribe(chan) is entered, whose
\* PoloniexError for want of credentials ends on_open. After the last
\* channel on_open is over and the task goes on to listen.
RxOpenLoop(k) ==
    /\ rx[k].pc = "open"
    /\ LET r == rx[k]
       IN  rx' = [rx EXCEPT ![k] =
                     IF r.i > Len(ChannelOrder)
                     THEN Task(AfterOpen, 0, "", r.exc)
                     ELSE IF ~channels[ChannelOrder[r.i]].sub
                     THEN [r EXCEPT !.i = r.i + 1]
                     ELSE IF NeedsCredentials(ChannelOrder[r.i], key, secret)
                     THEN Task(AfterOpen, 0, "", "PoloniexError")
                     ELSE [r EXCEPT !.pc = "openmark",
                                    !.chan = ChannelOrder[r.i]]]
    /\ UNCHANGED << httpRest, _nonce, channels, sent, sock, _running, _t,
                    user, received, delivered, stopLog, opsLeft >>

\* The subscribe called by on_open, line 793 or 810:
\* self.channels[chan]['sub'] = True (no callback is passed).
RxOpenMark(k) ==
    /\ rx[k].pc = "openmark"
    /\ channels' = [channels EXCEPT ![rx[k].chan] = MarkSubscribed(@)]
    /\ rx' = [rx EXCEPT ![k].pc = AfterMark(rx[k].chan, "openload",
                                            "opensend")]
    /\ UNCHANGED << httpRest, _nonce, sent, sock, _running, _t, user,
                    received, delivered, stopLog, opsLeft >>

\* The nonce property read by the subscribe on_open calls.
RxNonceLoad(k) ==
    /\ rx[k].pc = "openload"
    /\ rx' = [rx EXCEPT ![k].pc = "openstore", ![k].n = _nonce]
    /\ UNCHANGED << httpRest, _nonce, channels, sent, sock, _running, _t,
                    user, received, delivered, stopLog, opsLeft >>

RxNonceStore(k) ==
    /\ rx[k].pc = "openstore"
    /\ _nonce' = Incremented(rx[k].n)
    /\ rx' = [rx EXCEPT ![k].pc = "openreturn"]
    /\ UNCHANGED << httpRest, channels, sent, sock, _running, _t, user,
                    received, delivered, stopLog, opsLeft >>

RxNonceReturn(k) ==
    /\ rx[k].pc = "openreturn"
    /\ rx' = [rx EXCEPT ![k].pc = "opensend", ![k].n = _nonce]
    /\ UNCHANGED << httpRest, _nonce, channels, sent, sock, _running, _t,
                    user, received, delivered, stopLog, opsLeft >>

\* The subscribe called by on_open sends its frame; an exception of the
\* transport ends on_open.
RxOpenSend(k) ==
    /\ rx[k].pc = "opensend"
    /\ \E out \in SendOutcomes(sock) :
          /\ SendFrame("subscribe", rx[k].chan, rx[k].n, out)
          /\ rx' = [rx EXCEPT ![k] =
                       IF out = "" THEN Task("open", @.i + 1, "", @.exc)
                       ELSE Task(AfterOpen, 0, "", out)]
    /\ UNCHANGED << httpRest, _nonce, channels, sock, _running, _t, user,
                    received, delivered, stopLog, opsLeft >>

\* run_forever reads a frame and calls on_message with it; the calls the
\* handler makes are added to the calls made so far, and an exception it
\* ends with is kept in exc, the transport going on to the next frame.
\* Of the two calls of a heartbeat, lines 750 and 757, each reading the
\* callback of the entry anew, the first is made here.
RxMessage(k, message) ==
    /\ rx[k].pc = "listen"
    /\ Len(received) < MaxInbound
    /\ received' = Append(received, message)
    /\ LET d == on_message(channels, message)
       IN  IF Len(d.calls) = 2
           THEN /\ delivered' = Append(delivered, d.calls[1])
                /\ rx' = [rx EXCEPT ![k].pc = "second", ![k].msg = message,
                                    ![k].exc = d.exc]
           ELSE /\ delivered' = delivered \o d.calls
                /\ rx' = [rx EXCEPT ![k].exc = d.exc]
    /\ UNCHANGED << httpRest, _nonce, channels, sent, sock, _running, _t,
                    user, stopLog, opsLeft >>

\* on_message, line 757, after the call of line 750 has returned: the
\* callback of the heartbeat entry is read again and called, and the
\* handler is over.
RxSecondCall(k) ==
    /\ rx[k].pc = "second"
    /\ delivered' = Append(delivered,
                           on_message(channels, rx[k].msg).calls[2])
    /\ rx' = [rx EXCEPT ![k].pc = AfterOpen, ![k].msg = Task("", 0, "", "").msg]
    /\ UNCHANGED << httpRest, _nonce, channels, sent, sock, _running, _t,
                    user, received, stopLog, opsLeft >>

\* run_forever returns after the close, and the thread ends.
RxExit(k) ==
    /\ rx[k].pc = "closing"
    /\ rx' = [rx EXCEPT ![k].pc = "exited"]
    /\ UNCHANGED << httpRest, _nonce, channels, sent, sock, _running, _t,
                    user, received, delivered, stopLog, opsLeft >>

\* An engine built with a subscribe argument, with or without credentials;
\* no HTTP call is made after the constructor.
InitWs ==
    /\ key \in {"", "KEY"}
    /\ secret \in {"", "SECRET"}
    /\ coach = TRUE
    /\ InitSocketed
    /\ \E subs \in InitialSubscribes : InitEngine(subs)
    /\ opsLeft = MaxUserOps
    /\ callsLeft = [t \in Threads |-> 0]
    /\ failBudget = -1
    /\ probe = NoProbe

NextWs ==
    \/ \E chan \in UserChannels, cb \in UserCallbacks : Subscribe(chan, cb)
    \/ SubscribeCallback
    \/ \E chan \in UserChannels : Unsubscribe(chan)
    \/ UserNonceLoad
    \/ UserNonceStore
    \/ UserNonceReturn
    \/ UserSend
    \/ \E subs \in InitialSubscribes \ {{}} : SetSubscribes(subs, "cbB")
    \/ SetSubscribesCallback
    \/ SetSubscribesMark
    \/ \E chan \in CallbackChannels : SetCallback(chan, "cbB")
    \/ \E id \in CallbackIds : SetCallbackById(id, "cbB")
    \/ Startws
    \/ Stopws
    \/ StopLoop
    \/ StopUnmark
    \/ StopSend
    \/ StopSleep
    \/ StopClose
    \/ StopJoin
    \/ \E k \in TaskIds :
          \/ RxConnect(k)
          \/ RxOpenLoop(k)
          \/ RxOpenMark(k)
          \/ RxNonceLoad(k)
          \/ RxNonceStore(k)
          \/ RxNonceReturn(k)
          \/ RxOpenSend(k)
          \/ \E message \in InboundFrames : RxMessage(k, message)
          \/ RxSecondCall(k)
          \/ RxExit(k)

SpecWs == InitWs /\ [][NextWs]_vars

\* The same engine on a connection the exchange pushes no frame on, the
\* calling thread making more calls.
InitQuiet ==
    /\ key \in {"", "KEY"}
    /\ secret \in {"", "SECRET"}
    /\ coach = TRUE
    /\ InitSocketed
    /\ \E subs \in InitialSubscribes : InitEngine(subs)
    /\ opsLeft = MaxQuietOps
    /\ callsLeft = [t \in Threads |-> 0]
    /\ failBudget = -1
    /\ probe = NoProbe

NextQuiet ==
    \/ \E chan \in UserChannels, cb \in UserCallbacks : Subscribe(chan, cb)
    \/ SubscribeCallback
    \/ \E chan \in UserChannels : Unsubscribe(chan)
    \/ UserNonceLoad
    \/ UserNonceStore
    \/ UserNonceReturn
    \/ UserSend
    \/ \E subs \in InitialSubscribes \ {{}} : SetSubscribes(subs, "cbB")
    \/ SetSubscribesCallback
    \/ SetSubscribesMark
    \/ \E chan \in CallbackChannels : SetCallback(chan, "cbB")
    \/ \E id \in CallbackIds : SetCallbackById(id, "cbB")
    \/ Startws
    \/ Stopws
    \/ StopLoop
    \/ StopUnmark
    \/ StopSend
    \/ StopSleep
    \/ StopClose
    \/ StopJoin
    \/ \E k \in TaskIds :
          \/ RxConnect(k)
          \/ RxOpenLoop(k)
          \/ RxOpenMark(k)
          \/ RxNonceLoad(k)
          \/ RxNonceStore(k)
          \/ RxNonceReturn(k)
          \/ RxOpenSend(k)
          \/ RxExit(k)

SpecQuiet == InitQuiet /\ [][NextQuiet]_vars

\* A client with credentials that makes HTTP calls while its engine,
\* built with a subscribe argument, is used; inbound frames are left out.
InitBoth ==
    /\ key = "KEY"
    /\ secret = "SECRET"
    /\ coach \in BOOLEAN
    /\ InitSocketed
    /\ \E subs \in InitialSubscribes \ {{}} : InitEngine(subs)
    /\ opsLeft = MaxEngineOps
    /\ callsLeft = [t \in Threads |-> IF t = 1 THEN MaxCalls ELSE 0]
    /\ failBudget = MaxFailConc
    /\ probe = NoProbe

NextBoth ==
    \/ Next
    \/ \E chan \in UserChannels, cb \in UserCallbacks : Subscribe(chan, cb)
    \/ SubscribeCallback
    \/ \E chan \in UserChannels : Unsubscribe(chan)
    \/ UserNonceLoad
    \/ UserNonceStore
    \/ UserNonceReturn
    \/ UserSend
    \/ Startws
    \/ \E k \in TaskIds :
          \/ RxConnect(k)
          \/ RxOpenLoop(k)
          \/ RxOpenMark(k)
          \/ RxNonceLoad(k)
          \/ RxNonceStore(k)
          \/ RxNonceReturn(k)
          \/ RxOpenSend(k)

SpecBoth == InitBoth /\ [][NextBoth]_vars

\* An engine with credentials that is started once; the calling thread
\* subscribes and unsubscribes only while the socket is connected, so that
\* the transport takes every frame, and on_open runs beside it.
InitRace ==
    /\ key = "KEY"
    /\ secret = "SECRET"
    /\ coach = TRUE
    /\ InitSocketed
    /\ \E subs \in InitialSubscribes : InitEngine(subs)
    /\ opsLeft = MaxRaceOps
    /\ callsLeft = [t \in Threads |-> 0]
    /\ failBudget = -1
    /\ probe = NoProbe

\* subscribe and unsubscribe called while the socket is connected.
ConnectedSubscribe(chan, cb) == sock = "open" /\ Subscribe(chan, cb)

ConnectedUnsubscribe(chan) == sock = "open" /\ Unsubscribe(chan)

NextRace ==
    \/ Startws
    \/ \E chan \in UserChannels, cb \in UserCallbacks :
          ConnectedSubscribe(chan, cb)
    \/ SubscribeCallback
    \/ \E chan \in UserChannels : ConnectedUnsubscribe(chan)
    \/ UserNonceLoad
    \/ UserNonceStore
    \/ UserNonceReturn
    \/ UserSend
    \/ \E k \in TaskIds :
          \/ RxConnect(k)
          \/ RxOpenLoop(k)
          \/ RxOpenMark(k)
          \/ RxNonceLoad(k)
          \/ RxNonceStore(k)
          \/ RxNonceReturn(k)
          \/ RxOpenSend(k)

SpecRace == InitRace /\ [][NextRace]_vars

\* An engine with credentials on which the calling thread only calls
\* startws and stopws, as often as it likes and in any order.
InitStarts ==
    /\ key = "KEY"
    /\ secret = "SECRET"
    /\ coach = TRUE
    /\ InitSocketed
    /\ \E subs \in InitialSubscribes :
          /\ channels = setSubscribes(NewChannels, subs, "cbA")
          /\ sent = <<>>
          /\ sock = "new"
          /\ _running = FALSE
          /\ _t = 0
          /\ rx = [k \in 1..MaxTasks |-> Task("none", 0, "", "")]
          /\ user = Ready("")
          /\ received = <<>>
          /\ delivered = <<>>
          /\ stopLog = NoStop
    /\ opsLeft = MaxStartStops
    /\ callsLeft = [t \in Threads |-> 0]
    /\ failBudget = -1
    /\ probe = NoProbe

NextStarts ==
    \/ Startws
    \/ Stopws
    \/ StopLoop
    \/ StopUnmark
    \/ UserNonceLoad
    \/ UserNonceStore
    \/ UserNonceReturn
    \/ StopSend
    \/ StopSleep
    \/ StopClose
    \/ StopJoin
    \/ \E k \in 1..MaxTasks :
          \/ RxConnect(k)
          \/ RxOpenLoop(k)
          \/ RxOpenMark(k)
          \/ RxNonceLoad(k)
          \/ RxNonceStore(k)
          \/ RxNonceReturn(k)
          \/ RxOpenSend(k)
          \/ RxExit(k)

SpecStarts == InitStarts /\ [][NextStarts]_vars

\* --------------------------------------------------- reading the traces

\* The places of caller t's trace that hold an event of one of `names`.
At(t, names) == { i \in 1..Len(trace[t]) : trace[t][i].e \in names }

\* Whether an event of `names` lies strictly between places i and j.
Between(t, i, j, names) == \E k \in At(t, names) : i < k /\ k < j

\* The round of the retry loop place i of the trace belongs to.
RoundOf(t, i) == Cardinality({ k \in At(t, {"attempt"}) : k <= i })

\* The <<name, number>> pairs of the events of `names`, in trace order.
Shape(t, names) ==
    LET evs == SelectSeq(trace[t], LAMBDA ev : ev.e \in names)
    IN  [i \in 1..Len(evs) |-> << evs[i].e, evs[i].n >>]

\* ------------------------------------------------------------------ claims

\* C1 (as claimed): under any interleaving of concurrent Private calls on
\* one client, no two reads of the nonce property obtain the same value.
C1_NoncesPairwiseDistinct ==
    \A t1 \in Threads, t2 \in Threads :
        \A i \in At(t1, {"nonce"}), j \in At(t2, {"nonce"}) :
            (t1 # t2 \/ i # j) => trace[t1][i].n # trace[t2][j].n

\* C2: with one caller, a nonce read that follows another with no resync in
\* between returns exactly the earlier value plus 42 (so a greater one).
C2_NonceStrideExact ==
    \A t \in Threads :
        \A i \in At(t, {"nonce"}), j \in At(t, {"nonce"}) :
            (i < j /\ ~Between(t, i, j, {"nonce", "resync"}))
                => /\ trace[t][j].n = trace[t][i].n + 42
                   /\ trace[t][j].n > trace[t][i].n

C2_Witness ==
    \E t \in Threads :
        \E i \in At(t, {"nonce"}), j \in At(t, {"nonce"}) :
            i < j /\ ~Between(t, i, j, {"nonce", "resync"})

\* C3: with one caller, once the exchange has reported the value v and the
\* client has resynchronized to it, the next nonce read is at least v + 42.
C3_AfterResyncAtLeastStride ==
    \A t \in Threads :
        \A i \in At(t, {"rejected"}), j \in At(t, {"nonce"}) :
            (i < j /\ ~Between(t, i, j, {"nonce"}))
                => /\ Between(t, i, j, {"resync"})
                   /\ trace[t][j].n >= trace[t][i].n + 42

C3_Witness ==
    \E t \in Threads :
        \E i \in At(t, {"rejected"}), j \in At(t, {"nonce"}) :
            i < j /\ trace[t][j].n >= trace[t][i].n + 42

\* C4 (as claimed): a Private call that receives "Nonce must be greater
\* than X. You provided Y." always goes on to retry: it never ends with
\* that response as its last one.
C4_NonceErrorAlwaysRetried ==
    \A t \in Threads :
        \A i \in At(t, {"rejected"}) :
            ~(frame[t].pc = "done" /\ ~\E k \in At(t, {"attempt"}) : k > i)

\* C4 (amended): the nonce error makes the client set its nonce to X; on
\* any round but the fifth it then sleeps the round's delay and goes into
\* the next round, and the next request sent carries a nonce >= X; on the
\* fifth round the call ends with the retry-exhausted error.
C4_NonceErrorResyncsAndRetries ==
    \A t \in Threads :
        \A i \in At(t, {"rejected"}) :
            LET x == trace[t][i].n
                handled == i < Len(trace[t])
            IN  /\ ~handled => frame[t].pc = "handle"
                /\ handled => trace[t][i + 1] = Event("resync", "", x)
                /\ (handled /\ RoundOf(t, i) < 5)
                       => /\ i + 2 <= Len(trace[t])
                          /\ trace[t][i + 2].e = "sleep"
                          /\ frame[t].idx > RoundOf(t, i)
                /\ (handled /\ RoundOf(t, i) = 5)
                       => /\ frame[t].pc = "done"
                          /\ frame[t].result.exc = "RetryException"
                /\ \A j \in At(t, {"post"}) : j > i => trace[t][j].n >= x

C4_Witness ==
    \E t \in Threads :
        \E i \in At(t, {"rejected"}), j \in At(t, {"post"}) :
            /\ j > i
            /\ trace[t][j].n >= trace[t][i].n
            /\ frame[t].pc = "done"
            /\ frame[t].result.exc = ""

\* Every request of caller t's call was answered with status 502.
AllBadGateway(t) ==
    /\ At(t, {"reply"}) # {}
    /\ \A i \in At(t, {"reply"}) : trace[t][i].n = 502

\* C5: a call whose every attempt is answered 502 makes exactly five
\* attempts, sleeps 0, 2, 5 and 30 seconds after the first four replies and
\* not after the fifth, and ends with the retry-exhausted error.
C5_BadGatewayExhaustsSchedule ==
    \A t \in Threads :
        (frame[t].pc = "done" /\ AllBadGateway(t))
            => /\ Cardinality(At(t, {"attempt"})) = 5
               /\ Cardinality(At(t, {"post", "get"})) = 5
               /\ Shape(t, {"reply", "sleep"}) =
                      << <<"reply", 502>>, <<"sleep", 0>>,
                         <<"reply", 502>>, <<"sleep", 2>>,
                         <<"reply", 502>>, <<"sleep", 5>>,
                         <<"reply", 502>>, <<"sleep", 30>>,
                         <<"reply", 502>> >>
               /\ frame[t].result =
                      Raise("RetryException",
                            "retryDelays exhausted Poloniex Network Error 502")

C5_Witness ==
    \E t \in Threads :
        /\ frame[t].pc = "done"
        /\ AllBadGateway(t)
        /\ frame[t].result.exc = "RetryException"
        /\ frame[t].cmdType = "Private"

\* The error texts of the exchange that are neither a nonce error nor a
\* request to try again.
FatalErrors == { OrderError, CommandError, SignatureError }

\* C6: a reply that carries such an error ends the call with that very
\* text: nothing follows the reply (no sleep, no further attempt), on
\* whichever round it comes.
C6_FatalErrorEndsCall ==
    \A t \in Threads :
        \A i \in At(t, {"reply"}) :
            trace[t][i].s \in FatalErrors
                => /\ i = Len(trace[t])
                   /\ frame[t].pc \in {"handle", "done"}
                   /\ frame[t].pc = "done"
                          => frame[t].result
                                 = Raise("PoloniexError", trace[t][i].s)

C6_Witness ==
    \E t \in Threads :
        /\ frame[t].pc = "done"
        /\ frame[t].result = Raise("PoloniexError", OrderError)
        /\ RoundOf(t, Len(trace[t])) = 3

\* C7: _checkCmd returns Private for a private command when key and secret
\* are both present and fails for want of credentials when one is absent,
\* returns Public for a public command, and fails with the invalid-command
\* error for any other name.
C7_CheckCmdClassifies ==
    (probe.fn = "_checkCmd" /\ probe.out # Pending)
        => LET c == probe.command
           IN  /\ (c \in PRIVATE_COMMANDS /\ key # "" /\ secret # "")
                      => probe.out = Return("Private")
               /\ (c \in PRIVATE_COMMANDS /\ (key = "" \/ secret = ""))
                      => probe.out =
                             Raise("PoloniexError",
                                   "An Api Key and Secret needed for command '"
                                       \o c \o "'")
               /\ c \in PUBLIC_COMMANDS => probe.out = Return("Public")
               /\ c \notin (PUBLIC_COMMANDS \cup PRIVATE_COMMANDS)
                      => probe.out =
                             Raise("PoloniexError", "Invalid Command!: " \o c)

C7_Witness ==
    /\ probe.command = "buy"
    /\ key = "KEY"
    /\ secret = ""
    /\ probe.out.exc = "PoloniexError"

\* The call caller t has under way is one whose classification fails.
ClassificationFails(t) ==
    /\ frame[t].pc # "idle"
    /\ \/ frame[t].command \notin (PUBLIC_COMMANDS \cup PRIVATE_COMMANDS)
       \/ frame[t].command \in PRIVATE_COMMANDS /\ (key = "" \/ secret = "")

\* C8: such a call ends in its first round with the classification error
\* and has done nothing else: no wait on the coach, no nonce read, nothing
\* signed or sent, no sleep and no second round.
C8_RejectedCallCostsNothing ==
    \A t \in Threads :
        ClassificationFails(t)
            => /\ frame[t].pc \in {"attempt", "done"}
               /\ frame[t].pc = "attempt" => trace[t] = <<>>
               /\ frame[t].pc = "done"
                      => /\ trace[t] = << Event("attempt", "", 1) >>
                         /\ frame[t].result.exc = "PoloniexError"
               /\ frame[t].idx = 1
               /\ frame[t].tmp = 0
               /\ frame[t].sign = Hmac("", "")
               /\ frame[t].ret = NoResponse
               /\ frame[t].problems = <<>>

C8_Witness ==
    \E t \in Threads :
        /\ ClassificationFails(t)
        /\ frame[t].pc = "done"
        /\ frame[t].command = "buy"
        /\ coach

\* The frame on_message has just handled, when a step handles one.
Handles(message) ==
    /\ Len(received') = Len(received) + 1
    /\ received'[Len(received')] = message

TickerAck == ArrayFrame(<<1002, 1>>)

\* A ticker data frame [1002, seq, price, ...], whatever seq is.
TickerData(message) ==
    /\ message.err = ""
    /\ Len(message.body) >= 3
    /\ message.body[1] = 1002

\* C9 (as claimed): with a callback registered for the ticker channel, the
\* handling of the acknowledgment [1002, 1] makes no callback call, and
\* the handling of a ticker data frame [1002, seq, price, ...] makes
\* exactly one call, of the ticker callback, with the frame minus its
\* first two elements, for every seq.
C9_TickerAckSilentDataOnce ==
    [][ \A message \in InboundFrames :
          (Handles(message) /\ channels["ticker"].callback # "")
              => /\ message = TickerAck => delivered' = delivered
                 /\ TickerData(message)
                       => delivered' =
                            Append(delivered,
                                   [callback |-> channels["ticker"].callback,
                                    args |-> SubSeq(message.body, 3,
                                                    Len(message.body))])
      ]_vars

\* The unsubscribe frames of channel c sent since the last stop began, up
\* to position `upto` of the frames sent.
UnsubscribesSince(c, upto) ==
    { i \in (stopLog.from + 1)..upto :
         /\ sent[i].command = "unsubscribe"
         /\ sent[i].channel = ChannelId(c) }

\* C10: when a stop has finished, exactly one unsubscribe frame was sent
\* for each channel that was marked subscribed when it began and none for
\* any other channel, and if the socket was closed, then after the sleep
\* and after all those frames.
C10_StopUnsubscribesEachThenCloses ==
    stopLog.state \in {"returned", "raised"}
        => /\ \A c \in ChannelNames :
                 Cardinality(UnsubscribesSince(c, stopLog.endAt))
                    = IF c \in stopLog.marked THEN 1 ELSE 0
           /\ stopLog.closedAt >= 0
                 => /\ stopLog.slept
                    /\ \A c \in stopLog.marked :
                          Cardinality(UnsubscribesSince(c, stopLog.closedAt))
                             = 1

\* C11 (as claimed): every stop that finishes has returned without error,
\* whatever the engine's state was, and a stop that follows straight on one
\* that returned sends no frame.
C11_StopIsIdempotent ==
    stopLog.state \in {"returned", "raised"}
        => /\ stopLog.state = "returned"
           /\ stopLog.again => stopLog.endAt = stopLog.from

\* C12 (as claimed): when a stop of an engine that had been started has
\* finished, by a return or by an exception, the socket is closed and the
\* receive task it was started with has exited.
C12_StopClosesAndJoins ==
    (stopLog.state \in {"returned", "raised"} /\ stopLog.task # 0)
        => /\ stopLog.closedAt >= 0
           /\ rx[stopLog.task].pc = "exited"

\* The places of the trace tr that hold an event named `name`.
PlacesOf(tr, name) == { i \in 1..Len(tr) : tr[i].e = name }

\* C13: with one caller, the requests of a call carry strictly increasing
\* nonces, each the one read in its own attempt and none above self._nonce;
\* self._nonce never goes down, a resync included, and every read of the
\* nonce property first moves it up.  So the nonce of an attempt is above
\* that of every earlier attempt, of this call and of the calls before it.
C13_AttemptsUseFreshNonces ==
    [][ /\ _nonce' >= _nonce
        /\ \A t \in Threads :
              /\ (frame[t].pc = "store" /\ frame'[t].pc = "return")
                    => _nonce' > _nonce
              /\ \A j \in PlacesOf(trace'[t], "post") :
                    /\ trace'[t][j].n <= _nonce'
                    /\ \A i \in PlacesOf(trace'[t], "post") :
                          i < j => trace'[t][i].n < trace'[t][j].n
                    /\ \E r \in PlacesOf(trace'[t], "nonce") :
                          /\ r < j
                          /\ trace'[t][r].n = trace'[t][j].n
                          /\ \A q \in PlacesOf(trace'[t], "nonce") :
                                q <= r \/ q > j
      ]_vars

\* A call has sent three requests, a nonce resync lying between two of them.
C13_Witness ==
    \E t \in Threads :
        /\ Cardinality(At(t, {"post"})) >= 3
        /\ \E i \in At(t, {"post"}), j \in At(t, {"post"}) :
              i < j /\ Between(t, i, j, {"resync"})

\* The events of `names` in the round of caller t's trace that place j
\* belongs to.
InRound(t, j, names) == { i \in At(t, names) : RoundOf(t, i) = RoundOf(t, j) }

\* C14 (as claimed): in the attempt of every Private request sent, the
\* nonce was read and the arguments signed before any wait on the coach,
\* and the wait came before the request.
C14_NonceThenCoachThenRequest ==
    \A t \in Threads :
        \A j \in At(t, {"post"}) :
            \E r \in InRound(t, j, {"nonce"}), s \in InRound(t, j, {"sign"}) :
                /\ r < s
                /\ s < j
                /\ \A c \in InRound(t, j, {"coach"}) : s < c /\ c < j

\* C14 (amended): in the attempt of every Private request sent, the wait
\* on the coach, made once when the client has a coach and not at all when
\* it has none, came first, then the nonce was read, then the arguments
\* were signed, then the request was sent.
C14_CoachThenNonceThenRequest ==
    \A t \in Threads :
        \A j \in At(t, {"post"}) :
            /\ Cardinality(InRound(t, j, {"coach"})) = IF coach THEN 1 ELSE 0
            /\ Cardinality(InRound(t, j, {"nonce"})) = 1
            /\ Cardinality(InRound(t, j, {"sign"})) = 1
            /\ \E r \in InRound(t, j, {"nonce"}),
                  s \in InRound(t, j, {"sign"}) :
                  /\ r < s
                  /\ s < j
                  /\ \A c \in InRound(t, j, {"coach"}) : c < r

\* A Private call of a client with a coach has sent its second request.
C14_Witness ==
    \E t \in Threads :
        /\ coach
        /\ Cardinality(At(t, {"post"})) = 2
        /\ \E j \in At(t, {"post"}) :
              RoundOf(t, j) = 2 /\ InRound(t, j, {"coach"}) # {}

\* The events of `names` in all the callers' traces.
AllAt(names) ==
    UNION { { << t, i >> : i \in At(t, names) } : t \in Threads }

\* The subscribe frames among the frames sent on the socket.
SubscribeFrames == { i \in 1..Len(sent) : sent[i].command = "subscribe" }

\* Every request of an HTTP attempt was preceded, in its attempt, by one
\* wait on the coach and no more.
OneWaitPerRequest ==
    \A t \in Threads :
        \A j \in At(t, {"post", "get"}) :
            /\ Cardinality(InRound(t, j, {"coach"})) = 1
            /\ \A c \in InRound(t, j, {"coach"}) : c < j

\* C15 (as claimed): on a client with a coach every outbound operation has
\* a wait on the coach of its own before it: each HTTP request, and each
\* subscribe frame sent on the socket.
C15_WaitBeforeEveryOperation ==
    coach
        => /\ OneWaitPerRequest
           /\ Cardinality(AllAt({"coach"}))
                 >= Cardinality(AllAt({"post", "get"}))
                       + Cardinality(SubscribeFrames)

\* C15 (amended): on a client with a coach every HTTP request, of a first
\* attempt or of a retry, has exactly one wait on the coach before it in
\* its attempt; a subscribe frame sent on the socket has none: the waits
\* made are at most one for each HTTP attempt, however many subscribe
\* frames are sent.
C15_WaitBeforeEveryHttpRequest ==
    coach
        => /\ OneWaitPerRequest
           /\ Cardinality(AllAt({"coach"}))
                 <= Cardinality(AllAt({"attempt"}))

\* A client with a coach has sent a subscribe frame, and a call of it has
\* sent its second request.
C15_Witness ==
    /\ coach
    /\ SubscribeFrames # {}
    /\ \E t \in Threads : Cardinality(At(t, {"post", "get"})) = 2

\* Caller t's call has ended with the retry-exhausted error.
Exhausted(t) ==
    frame[t].pc = "done" /\ frame[t].result.exc = "RetryException"

\* C16 (as claimed): the retry-exhausted error carries every failure of the
\* call's attempts: the text of each problem recorded is part of it.
C16_ExhaustedCarriesAllProblems ==
    \A t \in Threads :
        Exhausted(t)
            => \A i \in 1..Len(frame[t].problems) :
                   IsSubstring(frame[t].problems[i], frame[t].result.text)

\* C16 (amended): the retry-exhausted error is raised once five problems
\* are recorded, and what it carries is 'retryDelays exhausted ' followed
\* by the text of the fifth, the last one.
C16_ExhaustedCarriesLastProblem ==
    \A t \in Threads :
        Exhausted(t)
            => /\ Len(frame[t].problems) = 5
               /\ frame[t].result.text
                     = "retryDelays exhausted " \o frame[t].problems[5]

\* A call has ended with the retry-exhausted error after problems of
\* different texts, the last one not the first.
C16_Witness ==
    \E t \in Threads :
        /\ Exhausted(t)
        /\ frame[t].problems[1] # frame[t].problems[5]
        /\ ~IsSubstring(frame[t].problems[1], frame[t].result.text)

\* The errors a call may end with besides retry exhaustion: invalid
\* command, missing credentials, invalid response, exchange rejected.
CallerErrors(command) ==
    { "Invalid Command!: " \o command,
      "An Api Key and Secret needed for command '" \o command \o "'",
      "Invalid json response returned" } \cup FatalErrors

\* C17 (as claimed): no call is ever past the fifth round, and a call that
\* has ended has returned the decoded data or raised PoloniexError with
\* one of the caller errors or RetryException, and never the
\* RequestException used inside to ask for a retry.
C17_CallEndsWithListedOutcome ==
    \A t \in Threads :
        /\ frame[t].idx <= 5
        /\ frame[t].pc = "done"
              => /\ frame[t].result.exc # "RequestException"
                 /\ \/ frame[t].result = Return("out")
                    \/ /\ frame[t].result.exc = "PoloniexError"
                       /\ frame[t].result.text
                             \in CallerErrors(frame[t].command)
                    \/ /\ frame[t].result.exc = "RetryException"
                       /\ frame[t].idx = 5

\* The heartbeat frames among the frames handled, and the calls of the
\* heartbeat callback among the calls made.
HeartbeatFrames ==
    { i \in 1..Len(received) :
         received[i].err = "" /\ Len(received[i].body) >= 1
                              /\ received[i].body[1] = 1010 }

HeartbeatCalls ==
    { i \in 1..Len(delivered) : delivered[i].callback = "on_heartbeat" }

\* C18 (as claimed): the heartbeat callback has been called once for each
\* heartbeat frame handled, each time with the whole frame.
C18_HeartbeatDeliveredOnce ==
    /\ Cardinality(HeartbeatCalls) = Cardinality(HeartbeatFrames)
    /\ \A i \in HeartbeatCalls : delivered[i].args = <<1010>>

\* The channels whose frames keep their sequence number: all but
\* heartbeat, ticker and 24hvolume.
SequencedChannels == ChannelNames \ {"heartbeat", "ticker", "24hvolume"}

\* A data frame [channelId, seq, ...] of channel chan.
DataFrameOf(chan, message) ==
    /\ message.err = ""
    /\ Len(message.body) >= 3
    /\ ToString(message.body[1]) = ChannelId(chan)

\* C19 (as claimed): the handling of a data frame of such a channel, when
\* the channel has a callback, makes exactly one call, of that callback,
\* with the frame minus its first element, whatever the sequence number.
C19_SequencedFramesKeepSeq ==
    [][ \A message \in InboundFrames : \A chan \in SequencedChannels :
          (Handles(message) /\ DataFrameOf(chan, message)
                            /\ channels[chan].callback # "")
              => delivered' =
                    Append(delivered,
                           [callback |-> channels[chan].callback,
                            args |-> SubSeq(message.body, 2,
                                            Len(message.body))])
      ]_vars

\* A frame whose first element is the id of no channel.
UnknownChannel(message) ==
    /\ message.err = ""
    /\ Len(message.body) >= 1
    /\ \A c \in ChannelNames : ToString(message.body[1]) # channels[c].id

\* C20 (as claimed): the handling of a frame of an unknown channel id makes
\* no call, leaves the channels as they are and ends without an exception.
C20_UnknownChannelDropped ==
    [][ \A message \in InboundFrames :
          (Handles(message) /\ UnknownChannel(message))
              => /\ delivered' = delivered
                 /\ channels' = channels
                 /\ \A k \in TaskIds :
                       rx'[k] # rx[k] => rx'[k].exc = ""
      ]_vars

\* The threads made by startws that have been started and have not ended.
AliveTasks == { k \in DOMAIN rx : rx[k].pc \notin {"none", "exited"} }

\* C21: whatever start and stop calls are made on one engine, at most one
\* background receive task is alive at any time; a start call on an engine
\* that is already running does not make a second one.
C21_AtMostOneLiveTask == Cardinality(AliveTasks) <= 1

\* C22: on a client whose key or secret is absent, subscribe and
\* unsubscribe of the "account" channel raise and change nothing: no call
\* gets past the credential test for that channel, no frame is sent for
\* it, no nonce is consumed, and the step that raises leaves every
\* channel entry (subscribed flag and callback) as it was.
C22_CredlessAccountChangesNothing ==
    [][ (key = "" \/ secret = "") =>
          /\ user'.op \in {"subscribe", "unsubscribe", "stopws"}
                => user'.chan # "account"
          /\ \A k \in DOMAIN rx : rx'[k].chan # "account"
          /\ \A i \in 1..Len(sent') : sent'[i].channel # ChannelId("account")
          /\ _nonce' = _nonce
          /\ (user'.err = "PoloniexError"
                 /\ (opsLeft' # opsLeft \/ user' # user))
                => channels' = channels
          /\ (\E k \in DOMAIN rx : /\ rx'[k].exc = "PoloniexError"
                                    /\ rx[k].exc # "PoloniexError")
                => channels' = channels ]_vars

\* A subscribe or unsubscribe of the account channel has raised on a
\* client without a secret, the channel still marked as the constructor
\* marked it.
C22_Witness ==
    /\ key = "KEY"
    /\ secret = ""
    /\ user.err = "PoloniexError"
    /\ stopLog.state = "none"
    /\ channels["account"].sub
    /\ channels["account"].callback = "cbA"

\* Whether frame f is the exchange's acknowledgment of a subscribe to c.
IsSubscribeAck(f, c) ==
    /\ f.err = ""
    /\ Len(f.body) = 2
    /\ ToString(f.body[1]) = ChannelId(c)
    /\ f.body[2] = 1

\* Whether the subscribe frame of channel c has been sent and no
\* acknowledgment of it has been handled yet: the channel the claim calls
\* SubscribePending.
AwaitsAck(c) ==
    /\ channels[c].sub
    /\ \E i \in 1..Len(sent) : /\ sent[i].command = "subscribe"
                                /\ sent[i].channel = ChannelId(c)
    /\ \A i \in 1..Len(received) : ~IsSubscribeAck(received[i], c)

\* C23 (as claimed): between the subscribe call and the matching server
\* acknowledgment a channel is SubscribePending, and it reaches the
\* Subscribed state when that acknowledgment is processed: whatever the
\* registry keeps of a channel's state, the step that handles the first
\* acknowledgment of a channel awaiting it leaves the entry of the channel
\* different from what it was.
C23_AckMovesPendingToSubscribed ==
    [][ \A c \in ChannelNames :
           ( /\ AwaitsAck(c)
             /\ Len(received') = Len(received) + 1
             /\ IsSubscribeAck(received'[Len(received')], c) )
               => channels'[c] # channels[c] ]_vars

\* C24: for every Private request sent, under any interleaving of
\* concurrent calls, the encoding of the parameters the signature was
\* computed over is the encoding of the parameters sent in the body: each
\* post event carries the string its attempt's sign event carries.
C24_SignedEncodingIsSentEncoding ==
    \A t \in Threads : \A i \in At(t, {"post"}) :
        /\ i > 1
        /\ trace[t][i - 1].e = "sign"
        /\ trace[t][i - 1].s = trace[t][i].s

\* The arguments the caller of t's call supplied, and with the command
\* name added.
SuppliedArgs(t) == IF frame[t].own THEN CallerArgs ELSE <<>>

WithCommand(t) == DictSet(SuppliedArgs(t), "command", frame[t].command)

\* C25: the parameters sent for a call are exactly the arguments the
\* caller supplied for it plus the command name, plus the nonce when the
\* command is Private; no parameter of an earlier call appears in a later
\* call's request.
C25_RequestCarriesOwnParametersOnly ==
    \A t \in Threads :
        /\ \A i \in At(t, {"get"}) :
               trace[t][i].s = "https://poloniex.com/public?"
                                   \o Urlencode(WithCommand(t))
        /\ \A i \in At(t, {"post"}) :
               trace[t][i].s =
                   Urlencode(DictSet(WithCommand(t), "nonce",
                                     ToString(trace[t][i].n)))

\* The places of the frames sent for channel c.
FramesFor(c) == { i \in 1..Len(sent) : sent[i].channel = ChannelId(c) }

\* No subscribe or unsubscribe is under way, in the calling thread or in
\* on_open.
AllFinished ==
    /\ user.op = ""
    /\ \A k \in DOMAIN rx : rx[k].pc \in {"none", "listen"}

\* C26: whatever the interleaving of the calling thread's subscribe and
\* unsubscribe with the re-subscription of on_open, once all of them have
\* finished the subscribed flag of a channel agrees with the last frame
\* sent for it: true after a subscribe frame, false after an unsubscribe
\* frame.
C26_FlagAgreesWithLastFrame ==
    AllFinished =>
        \A c \in ChannelNames : \A i \in FramesFor(c) :
            (\A j \in FramesFor(c) : j <= i) =>
                (channels[c].sub <=> sent[i].command = "subscribe")

\* The status codes the specification classifies Retryable.
RetryableStatuses == {502, 504} \cup 520..526

\* C27: a response whose status is 502, 504 or one of 520 to 526 is
\* Retryable (RequestException naming the status) whatever its body; a
\* response of any other status is classified as the same body is under
\* status 200, so never Retryable on account of its status.
C27_StatusClassification ==
    (probe.fn = "_handleReturned" /\ probe.out # Pending) =>
        LET data == probe.data
        IN  /\ data.status_code \in RetryableStatuses =>
                   probe.out = Handled("RequestException",
                                       "Poloniex Network Error "
                                           \o ToString(data.status_code),
                                       Seed)
            /\ data.status_code \notin RetryableStatuses =>
                   /\ probe.out =
                          _handleReturned(Response(200, data.valid, data.out),
                                          Seed)
                   /\ ~IsSubstring("Network Error", probe.out.text)

\* _handleReturned has run on a response of status 526 with a data body
\* and raised RequestException.
C27_Witness ==
    /\ probe.fn = "_handleReturned"
    /\ probe.data = Response(526, DataReply.valid, DataReply.out)
    /\ probe.out.exc = "RequestException"

\* C28: a response of a non-retryable status whose body is no JSON ends
\* the call at once with PoloniexError('Invalid json response returned'):
\* the step that handles it ends the call with that error on whichever
\* round it comes, and adds no sleep and no further attempt to the trace.
C28_InvalidJsonFailsAtOnce ==
    [][ \A t \in Threads :
          ( /\ frame[t].pc = "handle"
            /\ frame'[t] # frame[t]
            /\ ~(frame[t].ret.status_code \in RetryableStatuses)
            /\ ~frame[t].ret.valid )
          => /\ frame'[t].pc = "done"
             /\ frame'[t].result =
                    Raise("PoloniexError", "Invalid json response returned")
             /\ frame'[t].idx = frame[t].idx
             /\ trace'[t] = trace[t]
             /\ _nonce' = _nonce ]_vars

\* A call has ended with the invalid-response error on its first round,
\* its trace ending with the reply that was no JSON.
C28_Witness ==
    \E t \in Threads :
        /\ frame[t].pc = "done"
        /\ frame[t].result =
               Raise("PoloniexError", "Invalid json response returned")
        /\ frame[t].idx = 1
        /\ trace[t][Len(trace[t])] = Event("reply", "<html>", 200)
        /\ At(t, {"sleep"}) = {}

\* C29: an error message that contains "nonce must be greater" in any
\* letter case is Retryable (RequestException) and leaves in self._nonce
\* the value the message reports.
C29_NonceErrorAnyCase ==
    ( /\ probe.fn = "_handleReturned"
      /\ probe.out # Pending
      /\ probe.data.status_code \notin RetryableStatuses
      /\ probe.data.valid
      /\ DictHas(probe.data.out, "error")
      /\ IsSubstring("nonce must be greater",
                     Lower(DictGet(probe.data.out, "error"))) )
    => /\ probe.out.exc = "RequestException"
       /\ probe.out.nonce =
              ToInt(ParseNonce(DictGet(probe.data.out, "error")))
       /\ _nonce = probe.out.nonce

====
